---- MODULE Spec2Model ----
(***************************************************************************)
(* BrightData webhook relay: trigger client, webhook receiver (payload     *)
(* shape detection, record classification), Firestore persistence gateway  *)
(* partitioned per job type, and the local backup files.                   *)
(*                                                                         *)
(* JavaScript values are records [t, v]: t is the typeof-like tag and v    *)
(* the content.  A string is kept as the sequence of its pieces between    *)
(* underscores ("job_12" is <<"job", "12">>, "" is <<"">>), so that the    *)
(* template literals that build identifiers and file names are sequence    *)
(* concatenations.                                                         *)
(***************************************************************************)
EXTENDS Integers, Sequences, FiniteSets, TLC

\* ------------------------------------------------------------------------
\* Bounds
\* ------------------------------------------------------------------------
MaxRecs == 2
MaxClock == 1
MaxReqs == 2
MaxRuns == 2

\* ------------------------------------------------------------------------
\* JavaScript values
\* ------------------------------------------------------------------------
Undef == [t |-> "undefined", v |-> <<>>]
Null == [t |-> "null", v |-> <<>>]
Str(segs) == [t |-> "string", v |-> segs]
Arr(items) == [t |-> "array", v |-> items]
EmptyStr == Str(<<"">>)

\* ToBoolean: undefined, null and "" are falsy; objects and arrays are truthy
Truthy(x) ==
  CASE x.t = "undefined" -> FALSE
    [] x.t = "null" -> FALSE
    [] x.t = "string" -> x.v # <<"">>
    [] OTHER -> TRUE

\* a || b
Or(a, b) == IF Truthy(a) THEN a ELSE b

IsArray(x) == x.t = "array"

\* reading a property of undefined or null raises a TypeError
IsNullish(x) == x.t \in {"undefined", "null"}

\* ------------------------------------------------------------------------
\* Strings that occur in payloads
\* ------------------------------------------------------------------------
X == Str(<<"X">>)
Y == Str(<<"Y">>)
UrlIndeed == Str(<<"https://in.indeed.com/viewjob?jk=1">>)
UrlLinkedinJob == Str(<<"https://www.linkedin.com/jobs/view/1">>)
UrlLinkedinCompany == Str(<<"https://www.linkedin.com/company/acme">>)
UrlLinkedinProfile == Str(<<"https://www.linkedin.com/in/bob">>)
UrlOther == Str(<<"https://example.org/careers/7">>)
DomainIndeed == Str(<<"indeed.com">>)
Title == Str(<<"Nurse">>)
Failed == Str(<<"failed">>)

\* String.prototype.includes on the strings above
Containing(pat) ==
  CASE pat = "indeed.com" -> {UrlIndeed, DomainIndeed}
    [] pat = "linkedin.com/jobs" -> {UrlLinkedinJob}
    [] pat = "linkedin.com/company" -> {UrlLinkedinCompany}
    [] pat = "linkedin.com" -> {UrlLinkedinJob, UrlLinkedinCompany, UrlLinkedinProfile}
    [] pat = "company" -> {UrlLinkedinCompany}
    [] OTHER -> {}

\* x?.includes(pat): undefined when x is missing, hence falsy
Includes(x, pat) == x.t = "string" /\ x \in Containing(pat)

\* ------------------------------------------------------------------------
\* Records of a result batch
\* ------------------------------------------------------------------------
NoInput == [t |-> "undefined", v |-> <<>>, snapshot_id |-> Undef, snapshot |-> Undef,
            id |-> Undef, snapshotId |-> Undef, domain |-> Undef]

InputObj(sid, dom) == [NoInput EXCEPT !.t = "object", !.snapshot_id = sid, !.domain = dom]

NoDiscovery == [t |-> "undefined", v |-> <<>>, domain |-> Undef]

BaseItem ==
  [snapshot_id |-> Undef, snapshot |-> Undef, id |-> Undef, snapshotId |-> Undef,
   input |-> NoInput, discovery_input |-> NoDiscovery,
   job_posting_id |-> Undef, domain |-> Undef, url |-> Undef, job_url |-> Undef,
   company_link |-> Undef, company_url |-> Undef, linkedin_url |-> Undef,
   job_title |-> Undef, company_name |-> Undef, company |-> Undef,
   salary |-> Undef]

\* ------------------------------------------------------------------------
\* Payload Shape Detector
\* ------------------------------------------------------------------------
BasePayload ==
  [t |-> "object", v |-> <<>>,
   snapshot_id |-> Undef, snapshot |-> Undef, id |-> Undef, snapshotId |-> Undef,
   data |-> Undef, results |-> Undef, status |-> Undef,
   job_title |-> Undef, company |-> Undef, job_url |-> Undef]

ArrayPayload(items) == [BasePayload EXCEPT !.t = "array", !.v = items]

extractSnapshotId(payload) ==
  Or(payload.snapshot_id, Or(payload.snapshot, Or(payload.id, Or(payload.snapshotId, Null))))

\* `job_${firstItem.job_posting_id || Date.now()}`
JobTag(firstItem, now) ==
  Str(<<"job">> \o (IF Truthy(firstItem.job_posting_id)
                    THEN firstItem.job_posting_id.v ELSE <<ToString(now)>>))

\* `single_${Date.now()}`
SingleTag(now) == Str(<<"single", ToString(now)>>)

Detected(d, s) == [threw |-> FALSE, data |-> d, snapshotId |-> s]
TypeError == [threw |-> TRUE, data |-> <<>>, snapshotId |-> Null]

\* dataArray = [payload]: the payload object itself is the single record
PayloadAsItem(payload) ==
  [BaseItem EXCEPT !.snapshot_id = payload.snapshot_id, !.snapshot = payload.snapshot,
                   !.id = payload.id, !.snapshotId = payload.snapshotId,
                   !.job_title = payload.job_title, !.company = payload.company,
                   !.job_url = payload.job_url]

\* variant: the results list is looked at before the data list
extractJobDataFromPayload_ResultsFirst(payload, now) ==
  IF IsArray(payload)
  THEN IF Len(payload.v) > 0
       THEN LET firstItem == payload.v[1]
            IN  IF IsNullish(firstItem.input)
                THEN TypeError
                ELSE Detected(payload.v,
                              Or(extractSnapshotId(firstItem.input),
                                 Or(extractSnapshotId(firstItem), JobTag(firstItem, now))))
       ELSE Detected(payload.v, Null)
  ELSE IF IsNullish(payload)
  THEN TypeError
  ELSE IF Truthy(payload.results) /\ IsArray(payload.results)
  THEN Detected(payload.results.v, extractSnapshotId(payload))
  ELSE IF Truthy(payload.data) /\ IsArray(payload.data)
  THEN Detected(payload.data.v, extractSnapshotId(payload))
  ELSE IF Truthy(payload.job_title) \/ Truthy(payload.company) \/ Truthy(payload.job_url)
  THEN Detected(<<PayloadAsItem(payload)>>,
                Or(extractSnapshotId(payload), SingleTag(now)))
  ELSE IF Truthy(payload.status) /\ (Truthy(payload.snapshot_id) \/ Truthy(payload.id))
  THEN Detected(<<>>, extractSnapshotId(payload))
  ELSE Detected(<<>>, Null)

extractJobDataFromPayload(payload, now) ==
  IF IsArray(payload)
  THEN IF Len(payload.v) > 0
       THEN LET firstItem == payload.v[1]
            IN  IF IsNullish(firstItem.input)
                THEN TypeError
                ELSE Detected(payload.v,
                              Or(extractSnapshotId(firstItem.input),
                                 Or(extractSnapshotId(firstItem), JobTag(firstItem, now))))
       ELSE Detected(payload.v, Null)
  ELSE IF IsNullish(payload)
  THEN TypeError
  ELSE IF Truthy(payload.data) /\ IsArray(payload.data)
  THEN Detected(payload.data.v, extractSnapshotId(payload))
  ELSE IF Truthy(payload.job_title) \/ Truthy(payload.company) \/ Truthy(payload.job_url)
  THEN Detected(<<PayloadAsItem(payload)>>,
                Or(extractSnapshotId(payload), SingleTag(now)))
  ELSE IF Truthy(payload.results) /\ IsArray(payload.results)
  THEN Detected(payload.results.v, extractSnapshotId(payload))
  ELSE IF Truthy(payload.status) /\ (Truthy(payload.snapshot_id) \/ Truthy(payload.id))
  THEN Detected(<<>>, extractSnapshotId(payload))
  ELSE Detected(<<>>, Null)

\* ------------------------------------------------------------------------
\* The Shape Detector as a pure function: payloads it is applied to
\* ------------------------------------------------------------------------
A == Str(<<"A">>)
B == Str(<<"B">>)
C == Str(<<"C">>)
D == Str(<<"D">>)
P1 == Str(<<"P1">>)
NotAnArray == Str(<<"n/a">>)

NullInput == [NoInput EXCEPT !.t = "null"]

\* sequences over S of length lo..hi
SeqsOf(S, lo, hi) == UNION {[1..n -> S] : n \in lo..hi}

RestItems == {[BaseItem EXCEPT !.job_title = Title], [BaseItem EXCEPT !.url = UrlIndeed]}

FirstItems ==
  {[BaseItem EXCEPT !.input = i, !.snapshot_id = s, !.id = d, !.job_posting_id = j] :
     i \in {NoInput, NullInput, InputObj(Undef, Undef), InputObj(A, Undef)},
     s \in {Undef, B}, d \in {Undef, C}, j \in {Undef, P1}}

BareArrays ==
  {ArrayPayload(<<>>)} \cup
  {ArrayPayload(<<f>> \o r) : f \in FirstItems, r \in SeqsOf(RestItems, 0, MaxRecs - 1)}

DataArrays == {Arr(s) : s \in SeqsOf(RestItems, 0, MaxRecs)}
ResultsArrays == {Arr(s) : s \in SeqsOf({[BaseItem EXCEPT !.company = Title]}, 0, MaxRecs)}

ObjectPayloads ==
  {[BasePayload EXCEPT !.snapshot_id = a, !.snapshot = b, !.id = c, !.snapshotId = d,
                       !.data = e, !.results = r, !.status = st,
                       !.job_title = jt, !.company = co, !.job_url = ju] :
     a \in {Undef, EmptyStr, A}, b \in {Undef, B}, c \in {Undef, EmptyStr, C},
     d \in {Undef, D},
     e \in {Undef, NotAnArray} \cup DataArrays,
     r \in {Undef, NotAnArray} \cup ResultsArrays,
     st \in {Undef, Failed}, jt \in {Undef, Title}, co \in {Undef, Title},
     ju \in {Undef, UrlOther}}

\* the JSON body `null`
NullPayload == [BasePayload EXCEPT !.t = "null"]

DetectPayloads == BareArrays \cup ObjectPayloads \cup {NullPayload}

VARIABLES dPayload, dNow, dOut

dvars == <<dPayload, dNow, dOut>>

Pending == [threw |-> FALSE, data |-> <<>>, snapshotId |-> Str(<<"pending">>)]

DetectStart == dPayload \in DetectPayloads /\ dNow \in 0..MaxClock /\ dOut = Pending

DetectArray ==
  /\ dOut = Pending
  /\ IsArray(dPayload)
  /\ dOut' = extractJobDataFromPayload(dPayload, dNow)
  /\ UNCHANGED <<dPayload, dNow>>

DetectObject ==
  /\ dOut = Pending
  /\ ~IsArray(dPayload)
  /\ dOut' = extractJobDataFromPayload(dPayload, dNow)
  /\ UNCHANGED <<dPayload, dNow>>


DetectDone == dOut # Pending

\* ------------------------------------------------------------------------
\* Record Classifier
\* ------------------------------------------------------------------------
\* variant: a batch is Indeed as soon as any of its records has an Indeed url
determineJobType_AnyRecord(data) ==
  IF Len(data) = 0 THEN "unknown"
  ELSE LET firstItem == data[1] IN
    IF \/ Includes(firstItem.domain, "indeed.com")
       \/ \E i \in 1..Len(data) : Includes(data[i].url, "indeed.com")
       \/ Includes(firstItem.job_url, "indeed.com")
       \/ Includes(firstItem.company_link, "indeed.com")
       \/ (Truthy(firstItem.discovery_input) /\ firstItem.discovery_input.domain = DomainIndeed)
       \/ (Truthy(firstItem.input) /\ firstItem.input.domain = DomainIndeed)
    THEN "indeed_jobs"
    ELSE IF \/ Includes(firstItem.url, "linkedin.com/jobs")
            \/ Includes(firstItem.job_url, "linkedin.com")
            \/ Includes(firstItem.company_url, "linkedin.com")
            \/ Truthy(firstItem.job_posting_id)
            \/ (Truthy(firstItem.url) /\ Includes(firstItem.url, "linkedin.com")
                /\ ~Includes(firstItem.url, "company"))
    THEN "linkedin_jobs"
    ELSE IF \/ Truthy(firstItem.linkedin_url)
            \/ (Truthy(firstItem.company_url) /\ Includes(firstItem.company_url, "linkedin.com/company"))
            \/ (Truthy(firstItem.url) /\ Includes(firstItem.url, "linkedin.com/company"))
    THEN "linkedin_company"
    ELSE IF Truthy(firstItem.job_title) \/ Truthy(firstItem.company_name) \/ Truthy(firstItem.company)
    THEN "job_search"
    ELSE "unknown"

determineJobType(data) ==
  IF Len(data) = 0 THEN "unknown"
  ELSE LET firstItem == data[1] IN
    IF \/ Includes(firstItem.domain, "indeed.com")
       \/ Includes(firstItem.url, "indeed.com")
       \/ Includes(firstItem.job_url, "indeed.com")
       \/ Includes(firstItem.company_link, "indeed.com")
       \/ (Truthy(firstItem.discovery_input) /\ firstItem.discovery_input.domain = DomainIndeed)
       \/ (Truthy(firstItem.input) /\ firstItem.input.domain = DomainIndeed)
    THEN "indeed_jobs"
    ELSE IF \/ Includes(firstItem.url, "linkedin.com/jobs")
            \/ Includes(firstItem.job_url, "linkedin.com")
            \/ Includes(firstItem.company_url, "linkedin.com")
            \/ Truthy(firstItem.job_posting_id)
            \/ (Truthy(firstItem.url) /\ Includes(firstItem.url, "linkedin.com")
                /\ ~Includes(firstItem.url, "company"))
    THEN "linkedin_jobs"
    ELSE IF \/ Truthy(firstItem.linkedin_url)
            \/ (Truthy(firstItem.company_url) /\ Includes(firstItem.company_url, "linkedin.com/company"))
            \/ (Truthy(firstItem.url) /\ Includes(firstItem.url, "linkedin.com/company"))
    THEN "linkedin_company"
    ELSE IF Truthy(firstItem.job_title) \/ Truthy(firstItem.company_name) \/ Truthy(firstItem.company)
    THEN "job_search"
    ELSE "unknown"

\* ------------------------------------------------------------------------
\* The Record Classifier as a pure function: batches it is applied to
\* ------------------------------------------------------------------------
ClassifyFirsts ==
  {[BaseItem EXCEPT !.url = u, !.domain = d, !.job_posting_id = j,
                    !.linkedin_url = l, !.job_title = t] :
     u \in {Undef, UrlIndeed, UrlLinkedinJob, UrlLinkedinCompany, UrlLinkedinProfile, UrlOther},
     d \in {Undef, DomainIndeed}, j \in {Undef, P1},
     l \in {Undef, UrlLinkedinProfile}, t \in {Undef, Title}}

ClassifyRest ==
  {[BaseItem EXCEPT !.url = UrlIndeed], [BaseItem EXCEPT !.url = UrlLinkedinCompany],
   [BaseItem EXCEPT !.job_title = Title]}

ClassifyBatches ==
  {<<>>} \cup {<<f>> \o r : f \in ClassifyFirsts, r \in SeqsOf(ClassifyRest, 0, MaxRecs - 1)}

ClassifyStart == dPayload \in {Arr(b) : b \in ClassifyBatches} /\ dNow = 0 /\ dOut = Pending

Classify ==
  /\ dOut = Pending
  /\ dOut' = [jobType |-> determineJobType(dPayload.v)]
  /\ UNCHANGED <<dPayload, dNow>>

\* ------------------------------------------------------------------------
\* Persistence Gateway (FirebaseJobService, per-job-type collections)
\* ------------------------------------------------------------------------
Partitions == {"linkedin_jobs", "indeed_jobs"}

\* the order in which getJobBySnapshotId scans the collections
ScanOrder == <<"linkedin_jobs", "indeed_jobs">>

NoCollection == "Unknown job type"

getCollection(jobType) ==
  CASE jobType \in {"linkedin_jobs", "linkedin"} -> "linkedin_jobs"
    [] jobType \in {"indeed_jobs", "indeed"} -> "indeed_jobs"
    [] OTHER -> NoCollection

\* cleanUndefinedValues on a scalar field or a nested object of a record:
\* null is dropped, and so is a nested object left without any key
CleanField(x) ==
  IF x.t = "null" THEN [x EXCEPT !.t = "undefined"]
  ELSE IF x.t = "object"
  THEN LET c == [k \in DOMAIN x |->
                   IF k \in {"t", "v"} THEN x[k]
                   ELSE IF x[k].t = "null" THEN Undef ELSE x[k]]
       IN  IF \A k \in DOMAIN c \ {"t", "v"} : c[k] = Undef
           THEN [c EXCEPT !.t = "undefined"]
           ELSE c
  ELSE x

CleanItem(item) == [k \in DOMAIN item |-> CleanField(item[k])]

\* cleanUndefinedValues on the data array: every element is cleaned, none is
\* filtered out
CleanData(data) == [i \in 1..Len(data) |-> CleanItem(data[i])]

Triggered == Str(<<"triggered">>)
Completed == Str(<<"completed">>)
Processed == Str(<<"processed">>)

\* an absent metadata.dataCount
NoCount == -1

\* formatTimestamp(Timestamp.now()): the text a point in time is stored as
formatTimestamp(t) == Str(<<"at", ToString(t)>>)

\* Timestamp.now(), stored as it is
Timestamp(t) == [t |-> "timestamp", v |-> <<ToString(t)>>]

\* The document saveJobData hands to collection.add(): the spread of the
\* caller's metadata comes after dataCount and overrides it; an empty data
\* array is an object without keys, so the cleaning drops the `data` key.
\* searchParams is the set of the keys that hold a value after the cleaning.
SavedDoc(docId, jobData, now) ==
  LET dataArray == jobData.data IN
  [docId |-> docId,
   searchParams |-> jobData.searchParams,
   createdAt |-> Or(jobData.createdAt, formatTimestamp(now)),
   triggeredAt |-> Or(jobData.triggeredAt, formatTimestamp(now)),
   snapshotId |-> jobData.snapshotId,
   status |-> Or(jobData.status, Completed),
   jobType |-> jobData.jobType,
   hasData |-> Len(dataArray) > 0,
   data |-> CleanData(dataArray),
   dataCount |-> IF jobData.dataCount # NoCount THEN jobData.dataCount ELSE Len(dataArray)]

\* variant: the delivered records are appended to the stored ones
UpdatedDoc_Appends(doc, updateData) ==
  [doc EXCEPT !.status = updateData.status,
              !.triggeredAt = updateData.triggeredAt,
              !.hasData = IF updateData.hasData THEN TRUE ELSE @,
              !.data = IF updateData.hasData THEN @ \o updateData.data ELSE @,
              !.dataCount = IF updateData.hasData THEN Len(doc.data \o updateData.data)
                            ELSE updateData.dataCount]

\* The fields docRef.update() replaces: status, data (if an array is given),
\* the whole metadata map (with dataCount recomputed when data is given).
UpdatedDoc(doc, updateData) ==
  [doc EXCEPT !.status = updateData.status,
              !.triggeredAt = updateData.triggeredAt,
              !.hasData = IF updateData.hasData THEN TRUE ELSE @,
              !.data = IF updateData.hasData THEN updateData.data ELSE @,
              !.dataCount = IF updateData.hasData THEN Len(updateData.data)
                            ELSE updateData.dataCount]

\* ------------------------------------------------------------------------
\* Requests
\* ------------------------------------------------------------------------
LinkedinJobItem == [BaseItem EXCEPT !.url = UrlLinkedinJob, !.job_title = Title]
IndeedItem == [BaseItem EXCEPT !.url = UrlIndeed, !.salary = Null]
CompanyItem == [BaseItem EXCEPT !.url = UrlLinkedinCompany]
SearchItem == [BaseItem EXCEPT !.job_title = Title, !.url = UrlOther]
UnknownItem == [BaseItem EXCEPT !.url = UrlOther]
Filler == [BaseItem EXCEPT !.company_name = Title]

\* a batch of n records whose first record is `first`
Batch(first, n) == <<first>> \o [i \in 1..(n - 1) |-> Filler]

DataPayload(sid, first, n) ==
  [BasePayload EXCEPT !.snapshot_id = sid, !.data = Arr(Batch(first, n))]

StatusOnly == [BasePayload EXCEPT !.status = Failed, !.id = X]
StatusSnapshot == [BasePayload EXCEPT !.status = Failed, !.snapshot = X]
EmptyObject == BasePayload
EmptyData == [BasePayload EXCEPT !.snapshot_id = X, !.data = Arr(<<>>)]
BareWithInput == ArrayPayload(<<[LinkedinJobItem EXCEPT !.input = InputObj(X, Undef)]>>)
BareNoInput == ArrayPayload(<<LinkedinJobItem>>)
\* one record sent as the payload itself, without an identifier
SingleJob == [BasePayload EXCEPT !.job_title = Title]

WebhookPayloads ==
  {DataPayload(X, f, MaxRecs) :
     f \in {LinkedinJobItem, IndeedItem, CompanyItem, SearchItem, UnknownItem}}
  \cup {StatusOnly, StatusSnapshot, EmptyObject, EmptyData, BareWithInput, BareNoInput,
        SingleJob, NullPayload}

WebhookSecret == Str(<<"whsec">>)
ApiKey == Str(<<"bdkey">>)
WrongSecret == Str(<<"guess">>)

\* `Bearer ${expectedSecret}`
Bearer(secret) == Str(<<"Bearer ">> \o secret.v)

NoAuth == [authorization |-> Undef, x_brightdata_auth |-> Undef,
           brightdata_auth |-> Undef, auth_header |-> Undef]

WebhookRequest(method, auth, payload) ==
  [op |-> "webhook", method |-> method, authorization |-> auth.authorization,
   x_brightdata_auth |-> auth.x_brightdata_auth, brightdata_auth |-> auth.brightdata_auth,
   auth_header |-> auth.auth_header, payload |-> payload]

AuthVariants ==
  {NoAuth,
   [NoAuth EXCEPT !.authorization = Bearer(ApiKey)],
   [NoAuth EXCEPT !.authorization = ApiKey],
   [NoAuth EXCEPT !.authorization = Bearer(WrongSecret)],
   [NoAuth EXCEPT !.x_brightdata_auth = ApiKey],
   [NoAuth EXCEPT !.brightdata_auth = ApiKey],
   [NoAuth EXCEPT !.x_brightdata_auth = WrongSecret, !.brightdata_auth = ApiKey],
   [NoAuth EXCEPT !.auth_header = WebhookSecret],
   [NoAuth EXCEPT !.auth_header = WrongSecret, !.x_brightdata_auth = WrongSecret]}

\* deliveries as the collection API makes them (secret echoed in the URL),
\* deliveries with the secret in the other places, and other HTTP methods
WebhookRequests ==
  {WebhookRequest("POST", [NoAuth EXCEPT !.auth_header = ApiKey], p) :
     p \in WebhookPayloads}
  \cup {WebhookRequest("POST", a, StatusOnly) : a \in AuthVariants}
  \cup {WebhookRequest(m, NoAuth, StatusOnly) : m \in {"GET", "PUT", "DELETE"}}

\* what the collection API answers to a trigger call
ApiFailure == [BasePayload EXCEPT !.t = "error"]
ApiSnapshot(sid) == [BasePayload EXCEPT !.snapshot_id = sid]
ApiNoId == BasePayload
\* the API answers with the records themselves
ApiDirect == [BasePayload EXCEPT !.t = "array"]

\* GET /api/webhook-data?snapshotId=...&source=local
ReadRequest(snapshotId) == [op |-> "read", snapshotId |-> snapshotId]

ReadRequests == {ReadRequest(sid) : sid \in {X, Y, Str(<<"single">>), SingleTag(0)}}

\* GET /api/webhook-data?action=list&source=local
ListRequest == [op |-> "list"]

ListRequests == {ListRequest}

\* a trigger request together with what the collection API will answer to
\* the LinkedIn call, to the Indeed call and to the Indeed fallback call
TriggerRequest(type, linkedin, indeed, fallback) ==
  [op |-> "trigger", type |-> type, linkedin |-> linkedin, indeed |-> indeed,
   fallback |-> fallback]

TriggerRequests ==
  {TriggerRequest(ty, r, ApiNoId, ApiNoId) :
     ty \in {"job_search", "linkedin_companies"},
     r \in {ApiSnapshot(X), ApiNoId, ApiDirect, ApiFailure}}
  \cup {TriggerRequest("both_platforms", ApiSnapshot(X), r, ApiNoId) :
          r \in {ApiSnapshot(Y), ApiSnapshot(X), ApiNoId}}
  \cup {TriggerRequest("both_platforms", ApiSnapshot(X), ApiFailure, r) :
          r \in {ApiSnapshot(Y), ApiFailure}}
  \cup {TriggerRequest("both_platforms", r, ApiSnapshot(Y), ApiNoId) :
          r \in {ApiNoId, ApiDirect, ApiFailure}}
  \cup {TriggerRequest("both_platforms", ApiFailure, ApiFailure, ApiFailure)}

\* the auth_header the Trigger Client writes into the trigger URL
IndeedKey == Str(<<"inkey">>)
\* `${value}` in a template literal
Interpolate(value) == IF value = Undef THEN Str(<<"undefined">>) ELSE value
LINKEDIN_AUTH_HEADER(e) == e.BRIGHTDATA_API_KEY
INDEED_AUTH_HEADER(e) == e.INDEED_API_KEY
triggerCollectionWithWebhook_auth_header(e) == Interpolate(LINKEDIN_AUTH_HEADER(e))
triggerIndeedCollectionWithWebhook_auth_header(e) == Interpolate(INDEED_AUTH_HEADER(e))

TriggerEnvironments ==
  [WEBHOOK_SECRET : {Undef, WebhookSecret}, BRIGHTDATA_API_KEY : {Undef, ApiKey},
   INDEED_API_KEY : {Undef, ApiKey, IndeedKey}]

\* the deliveries the collection API makes for the LinkedIn job X and for the
\* Indeed job Y, each echoing the auth_header of its trigger URL
EchoDeliveries(e) ==
  {WebhookRequest("POST",
     [NoAuth EXCEPT !.auth_header = triggerCollectionWithWebhook_auth_header(e)],
     DataPayload(X, LinkedinJobItem, n)) : n \in 1..MaxRecs}
  \cup
  {WebhookRequest("POST",
     [NoAuth EXCEPT !.auth_header = triggerIndeedCollectionWithWebhook_auth_header(e)],
     DataPayload(Y, IndeedItem, n)) : n \in 1..MaxRecs}

Environments ==
  [WEBHOOK_SECRET : {Undef, WebhookSecret}, BRIGHTDATA_API_KEY : {Undef, ApiKey}]

\* ------------------------------------------------------------------------
\* State
\* ------------------------------------------------------------------------
VARIABLES
  env,        \* process.env, fixed at start-up
  store,      \* Firestore: collection name -> set of documents
  nextDocId,  \* source of fresh document ids
  files,      \* the output folder: set of [name, content]
  now,        \* Date.now()
  storeUp,    \* whether Firestore calls succeed
  started,    \* number of requests received so far
  req         \* per handler invocation: request, position, locals, response

vars == <<env, store, nextDocId, files, now, storeUp, started, req, dPayload, dNow, dOut>>

NoDoc == [docId |-> 0, snapshotId |-> Null, status |-> Null, jobType |-> "",
          hasData |-> FALSE, data |-> <<>>, dataCount |-> NoCount,
          searchParams |-> {}, createdAt |-> Undef, triggeredAt |-> Undef]

NoResp == [code |-> 0, success |-> FALSE, saved |-> FALSE, docId |-> 0, docId2 |-> 0,
           action |-> "", snapshotId |-> Null, snapshotId2 |-> Null,
           status |-> Null, dataCount |-> 0, error |-> "", found |-> FALSE, data |-> Null, local |-> {}]

NoDetect == Detected(<<>>, Null)

Idle == [pc |-> "idle", in |-> [op |-> "none"], det |-> NoDetect, jobType |-> "", at |-> 0,
         scan |-> 1, existing |-> NoDoc, lookupThrew |-> FALSE, writeFailed |-> FALSE,
         outage |-> FALSE, wrote |-> {}, docId |-> 0, resp |-> NoResp,
         linkedinCall |-> "none", indeedCall |-> "none",
         posts |-> [linkedin |-> 0, indeed |-> 0]]

InFlight(s) == req[s].pc \notin {"idle", "done"}

DocsWith(sid) == {d \in UNION {store[p] : p \in Partitions} : d.snapshotId = sid}

\* ------------------------------------------------------------------------
\* Webhook Receiver (pages/api/consume)
\* ------------------------------------------------------------------------
expectedSecret(e) == Or(e.WEBHOOK_SECRET, e.BRIGHTDATA_API_KEY)

\* variant: any non-empty auth_header query parameter passes
isValidAuth_AnyUrlParam(e, in) ==
  LET expected == expectedSecret(e)
      authHeader == Or(in.authorization, EmptyStr)
      brightDataAuthHeader == Or(in.x_brightdata_auth, Or(in.brightdata_auth, EmptyStr))
      urlAuthParam == Or(in.auth_header, EmptyStr)
  IN  \/ authHeader = Bearer(expected)
      \/ authHeader = expected
      \/ brightDataAuthHeader = expected
      \/ Truthy(urlAuthParam)
      \/ ~Truthy(expected)

isValidAuth(e, in) ==
  LET expected == expectedSecret(e)
      authHeader == Or(in.authorization, EmptyStr)
      brightDataAuthHeader == Or(in.x_brightdata_auth, Or(in.brightdata_auth, EmptyStr))
      urlAuthParam == Or(in.auth_header, EmptyStr)
  IN  \/ authHeader = Bearer(expected)
      \/ authHeader = expected
      \/ brightDataAuthHeader = expected
      \/ urlAuthParam = expected
      \/ ~Truthy(expected)

Unauthorized(e, in) == Truthy(expectedSecret(e)) /\ ~isValidAuth(e, in)

\* `${kind}_${snapshotId}_${Date.now()}.json`
FileName(kind, sid, t) == <<kind>> \o sid.v \o <<ToString(t)>>

\* fs.writeFileSync: creates the file or replaces the one of that name
WriteFile(fs, name, content) == {f \in fs : f.name # name} \cup {[name |-> name, content |-> content]}

Begin(s, in) ==
  /\ ~InFlight(s)
  /\ started < MaxReqs
  /\ started' = started + 1

Reply(s, r, resp) == req' = [req EXCEPT ![s] = [r EXCEPT !.pc = "done", !.resp = resp]]

\* variant: the method is looked at after the secret
WebhookMethodNotAllowed_AfterAuth(s, in) ==
  /\ Begin(s, in)
  /\ in.method \notin {"POST", "GET"}
  /\ Reply(s, [Idle EXCEPT !.in = in],
           [NoResp EXCEPT !.code = IF Unauthorized(env, in) THEN 401 ELSE 405])
  /\ UNCHANGED <<dPayload, dNow, dOut, env, store, nextDocId, files, now, storeUp>>

\* method other than POST and GET
WebhookMethodNotAllowed(s, in) ==
  /\ Begin(s, in)
  /\ in.method \notin {"POST", "GET"}
  /\ Reply(s, [Idle EXCEPT !.in = in], [NoResp EXCEPT !.code = 405])
  /\ UNCHANGED <<dPayload, dNow, dOut, env, store, nextDocId, files, now, storeUp>>

\* GET: the "consumer is active" test answer
WebhookPing(s, in) ==
  /\ Begin(s, in)
  /\ in.method = "GET"
  /\ Reply(s, [Idle EXCEPT !.in = in], [NoResp EXCEPT !.code = 200])
  /\ UNCHANGED <<dPayload, dNow, dOut, env, store, nextDocId, files, now, storeUp>>

WebhookUnauthorized(s, in) ==
  /\ Begin(s, in)
  /\ in.method = "POST"
  /\ Unauthorized(env, in)
  /\ Reply(s, [Idle EXCEPT !.in = in], [NoResp EXCEPT !.code = 401])
  /\ UNCHANGED <<dPayload, dNow, dOut, env, store, nextDocId, files, now, storeUp>>

Accepted(in) == in.method = "POST" /\ ~Unauthorized(env, in)

\* extractJobDataFromPayload raised: the outer catch answers 500
WebhookDetectThrows(s, in) ==
  /\ Begin(s, in)
  /\ Accepted(in)
  /\ extractJobDataFromPayload(in.payload, now).threw
  /\ Reply(s, [Idle EXCEPT !.in = in], [NoResp EXCEPT !.code = 500])
  /\ UNCHANGED <<dPayload, dNow, dOut, env, store, nextDocId, files, now, storeUp>>

WebhookNoSnapshotId(s, in) ==
  LET det == extractJobDataFromPayload(in.payload, now) IN
  /\ Begin(s, in)
  /\ Accepted(in)
  /\ ~det.threw
  /\ ~Truthy(det.snapshotId)
  /\ Reply(s, [Idle EXCEPT !.in = in, !.det = det], [NoResp EXCEPT !.code = 400])
  /\ UNCHANGED <<dPayload, dNow, dOut, env, store, nextDocId, files, now, storeUp>>

\* a writeFileSync raised (disk full, no permission): the files written before
\* it stay, the outer catch answers 500
WebhookWriteFileThrows(s, in) ==
  LET det == extractJobDataFromPayload(in.payload, now)
      webhookFilename == FileName("webhook", det.snapshotId, now)
  IN
  /\ Begin(s, in)
  /\ Accepted(in)
  /\ ~det.threw
  /\ Truthy(det.snapshotId)
  /\ \E failAt \in 1..(IF Len(det.data) > 0 THEN 2 ELSE 1) :
       /\ files' = IF failAt = 1 THEN files ELSE WriteFile(files, webhookFilename, in.payload)
       /\ Reply(s, [Idle EXCEPT !.in = in, !.det = det,
                                !.wrote = IF failAt = 1 THEN {} ELSE {webhookFilename}],
                [NoResp EXCEPT !.code = 500])
  /\ UNCHANGED <<dPayload, dNow, dOut, env, store, nextDocId, now, storeUp>>

\* authorized, identifier found, backup files written; the handler now awaits
\* getJobBySnapshotId
WebhookAccept(s, in) ==
  LET det == extractJobDataFromPayload(in.payload, now)
      webhookFilename == FileName("webhook", det.snapshotId, now)
      dataFilename == FileName("data", det.snapshotId, now)
      hasData == Len(det.data) > 0
  IN
  /\ Begin(s, in)
  /\ Accepted(in)
  /\ ~det.threw
  /\ Truthy(det.snapshotId)
  /\ files' = IF hasData
              THEN WriteFile(WriteFile(files, webhookFilename, in.payload),
                             dataFilename, Arr(det.data))
              ELSE WriteFile(files, webhookFilename, in.payload)
  /\ req' = [req EXCEPT ![s] =
       [Idle EXCEPT !.pc = "lookup", !.in = in, !.det = det, !.at = now,
                    !.jobType = IF hasData THEN determineJobType(det.data) ELSE "",
                    !.wrote = IF hasData THEN {webhookFilename, dataFilename}
                              ELSE {webhookFilename}]]
  /\ UNCHANGED <<dPayload, dNow, dOut, env, store, nextDocId, now, storeUp>>

\* the 200 answer at the end of the handler
Summary(r, firebaseDocId) ==
  [NoResp EXCEPT
     !.code = 200, !.success = TRUE,
     !.saved = firebaseDocId # 0, !.docId = firebaseDocId,
     !.action = IF r.existing # NoDoc THEN "updated" ELSE "created",
     !.snapshotId = r.det.snapshotId,
     !.status = IF Len(r.det.data) > 0 THEN Completed
                ELSE Or(r.in.payload.status, Processed),
     !.dataCount = Len(r.det.data)]

\* extractSearchParams, as the set of the keys it gives a value: the records
\* of the model carry no keyword, location or country, and the domain of
\* `input` only
extractSearchParams(data, jobType) ==
  LET firstJob == data[1]
      jobKeys == IF jobType \in {"job_search", "indeed_jobs", "linkedin_jobs"} /\ Len(data) > 0
                 THEN IF Truthy(firstJob.discovery_input) THEN {}
                      ELSE IF Truthy(firstJob.input) /\ firstJob.input.domain # Undef
                      THEN {"domain"}
                      ELSE {}
                 ELSE {}
      companyKeys == IF /\ jobType = "linkedin_company"
                        /\ \E i \in 1..Len(data) :
                             Truthy(Or(data[i].linkedin_url, Or(data[i].company_url, data[i].url)))
                     THEN {"companyUrls"}
                     ELSE {}
  IN  jobKeys \cup companyKeys

\* jobData prepared by the handler when the payload carried records
JobDataOf(r) ==
  [snapshotId |-> r.det.snapshotId, status |-> Completed, jobType |-> r.jobType,
   data |-> r.det.data, dataCount |-> Len(r.det.data),
   triggeredAt |-> formatTimestamp(r.at), createdAt |-> Undef,
   searchParams |-> extractSearchParams(r.det.data, r.jobType)]

\* variant: the metadata of the update starts from the metadata prepared for
\* a new record
SpreadMetadata_OfJobData(r) ==
  [triggeredAt |-> formatTimestamp(r.at), dataCount |-> Len(r.det.data)]

\* `...existingJob.metadata`: the metadata of the record the lookup returned
SpreadMetadata(r) ==
  [triggeredAt |-> r.existing.triggeredAt, dataCount |-> r.existing.dataCount]

\* variant: the status update carries the (empty) list of delivered records
UpdateDataOf_SendsEmptyList(r) ==
  IF Len(r.det.data) > 0
  THEN [status |-> Completed, hasData |-> TRUE, data |-> r.det.data,
        dataCount |-> Len(r.det.data), triggeredAt |-> SpreadMetadata(r).triggeredAt]
  ELSE [status |-> Or(r.in.payload.status, r.existing.status), hasData |-> TRUE,
        data |-> <<>>, dataCount |-> SpreadMetadata(r).dataCount,
        triggeredAt |-> SpreadMetadata(r).triggeredAt]

\* updateData / statusUpdate built from the record that the lookup returned
UpdateDataOf(r) ==
  IF Len(r.det.data) > 0
  THEN [status |-> Completed, hasData |-> TRUE, data |-> r.det.data,
        dataCount |-> Len(r.det.data), triggeredAt |-> SpreadMetadata(r).triggeredAt]
  ELSE [status |-> Or(r.in.payload.status, r.existing.status), hasData |-> FALSE,
        data |-> <<>>, dataCount |-> SpreadMetadata(r).dataCount,
        triggeredAt |-> SpreadMetadata(r).triggeredAt]

\* The handler after `existingJob` is known, up to its next await: update the
\* found record, insert a new one, or answer at once (nothing to write, or
\* getCollection rejected the job type before any call to the store).
AfterLookup(s, r) ==
  LET hasData == Len(r.det.data) > 0 IN
  IF r.existing # NoDoc
  THEN IF getCollection(r.existing.jobType) = NoCollection
       THEN Reply(s, [r EXCEPT !.writeFailed = TRUE], Summary(r, 0))
       ELSE req' = [req EXCEPT ![s] = [r EXCEPT !.pc = "updGet"]]
  ELSE IF hasData
  THEN IF getCollection(r.jobType) = NoCollection
       THEN Reply(s, [r EXCEPT !.writeFailed = TRUE], Summary(r, 0))
       ELSE req' = [req EXCEPT ![s] = [r EXCEPT !.pc = "add"]]
  ELSE Reply(s, r, Summary(r, 0))

\* what getJobBySnapshotId(sid) can return on the store as it is: the
\* collections are scanned in order, the first one with a match decides, and
\* limit(1) picks any of its matches; a match without `data` makes it throw
FirstHit(sid) ==
  IF \E d \in store[ScanOrder[1]] : d.snapshotId = sid
  THEN {d \in store[ScanOrder[1]] : d.snapshotId = sid}
  ELSE {d \in store[ScanOrder[2]] : d.snapshotId = sid}

getJobBySnapshotId(sid) == {d \in FirstHit(sid) : d.hasData}

Matches(s) == {d \in store[ScanOrder[req[s].scan]] : d.snapshotId = req[s].det.snapshotId}

\* the query of getJobBySnapshotId failed: the handler's catch takes it for
\* "no existing job"
LookupFails(s) ==
  /\ req[s].pc = "lookup"
  /\ ~storeUp
  /\ AfterLookup(s, [req[s] EXCEPT !.lookupThrew = TRUE, !.outage = TRUE])
  /\ UNCHANGED <<dPayload, dNow, dOut, env, store, nextDocId, files, now, storeUp, started>>

\* where(...).limit(1) found a document that has a `data` array
LookupFound(s) ==
  /\ req[s].pc = "lookup"
  /\ storeUp
  /\ \E d \in Matches(s) :
       /\ d.hasData
       /\ AfterLookup(s, [req[s] EXCEPT !.existing = d])
  /\ UNCHANGED <<dPayload, dNow, dOut, env, store, nextDocId, files, now, storeUp, started>>

\* the document found has no `data` key: jobData.data.length raises a
\* TypeError, getJobBySnapshotId rethrows it, the handler's catch swallows it
LookupUnreadable(s) ==
  /\ req[s].pc = "lookup"
  /\ storeUp
  /\ \E d \in Matches(s) :
       /\ ~d.hasData
       /\ AfterLookup(s, [req[s] EXCEPT !.lookupThrew = TRUE])
  /\ UNCHANGED <<dPayload, dNow, dOut, env, store, nextDocId, files, now, storeUp, started>>

LookupNextCollection(s) ==
  /\ req[s].pc = "lookup"
  /\ storeUp
  /\ Matches(s) = {}
  /\ req[s].scan < Len(ScanOrder)
  /\ req' = [req EXCEPT ![s].scan = @ + 1]
  /\ UNCHANGED <<dPayload, dNow, dOut, env, store, nextDocId, files, now, storeUp, started>>

LookupNotFound(s) ==
  /\ req[s].pc = "lookup"
  /\ storeUp
  /\ Matches(s) = {}
  /\ req[s].scan = Len(ScanOrder)
  /\ AfterLookup(s, req[s])
  /\ UNCHANGED <<dPayload, dNow, dOut, env, store, nextDocId, files, now, storeUp, started>>

\* saveJobData: collection.add()
InsertDone(s) ==
  /\ req[s].pc = "add"
  /\ storeUp
  /\ store' = [store EXCEPT ![getCollection(req[s].jobType)] =
                 @ \cup {SavedDoc(nextDocId, JobDataOf(req[s]), now)}]
  /\ nextDocId' = nextDocId + 1
  /\ Reply(s, [req[s] EXCEPT !.docId = nextDocId], Summary(req[s], nextDocId))
  /\ UNCHANGED <<dPayload, dNow, dOut, env, files, now, storeUp, started>>

\* variant: the error of saveJobData reaches the outer catch
InsertFails_Rethrows(s) ==
  /\ req[s].pc = "add"
  /\ ~storeUp
  /\ Reply(s, [req[s] EXCEPT !.writeFailed = TRUE, !.outage = TRUE],
           [NoResp EXCEPT !.code = 500])
  /\ UNCHANGED <<dPayload, dNow, dOut, env, store, nextDocId, files, now, storeUp, started>>

InsertFails(s) ==
  /\ req[s].pc = "add"
  /\ ~storeUp
  /\ Reply(s, [req[s] EXCEPT !.writeFailed = TRUE, !.outage = TRUE], Summary(req[s], 0))
  /\ UNCHANGED <<dPayload, dNow, dOut, env, store, nextDocId, files, now, storeUp, started>>

Target(s) == store[getCollection(req[s].existing.jobType)]

\* updateJobData: docRef.get() and the exists check
UpdateRead(s) ==
  /\ req[s].pc = "updGet"
  /\ storeUp
  /\ \E d \in Target(s) : d.docId = req[s].existing.docId
  /\ req' = [req EXCEPT ![s].pc = "updWrite"]
  /\ UNCHANGED <<dPayload, dNow, dOut, env, store, nextDocId, files, now, storeUp, started>>

\* updateJobData: docRef.update()
UpdateDone(s) ==
  /\ req[s].pc = "updWrite"
  /\ storeUp
  /\ \E d \in Target(s) :
       /\ d.docId = req[s].existing.docId
       /\ store' = [store EXCEPT ![getCollection(req[s].existing.jobType)] =
                      (@ \ {d}) \cup {UpdatedDoc(d, UpdateDataOf(req[s]))}]
  /\ Reply(s, [req[s] EXCEPT !.docId = req[s].existing.docId],
           Summary(req[s], req[s].existing.docId))
  /\ UNCHANGED <<dPayload, dNow, dOut, env, nextDocId, files, now, storeUp, started>>

\* get() or update() failed, or the document is gone
UpdateFails(s) ==
  /\ req[s].pc \in {"updGet", "updWrite"}
  /\ \/ ~storeUp
     \/ ~\E d \in Target(s) : d.docId = req[s].existing.docId
  /\ Reply(s, [req[s] EXCEPT !.writeFailed = TRUE, !.outage = ~storeUp], Summary(req[s], 0))
  /\ UNCHANGED <<dPayload, dNow, dOut, env, store, nextDocId, files, now, storeUp, started>>

\* ------------------------------------------------------------------------
\* Trigger Client (controllers/brightdataController)
\* ------------------------------------------------------------------------
TriggerId(response) ==
  Or(response.snapshot_id, Or(response.snapshot, Or(response.id, response.snapshotId)))

\* the job type each trigger operation writes on its placeholder
PlaceholderType(type) ==
  CASE type = "job_search" -> "job_search"
    [] type = "linkedin_companies" -> "linkedin_company"
    [] OTHER -> "linkedin_jobs"

Placeholder(sid, jobType, at) ==
  [snapshotId |-> sid, status |-> Triggered, jobType |-> jobType, data |-> <<>>, dataCount |-> 0,
   triggeredAt |-> Timestamp(at), createdAt |-> Undef,
   searchParams |-> {"keyword", "location", "country"}]

TriggerAnswer(code, sid, sid2, docId, docId2) ==
  [NoResp EXCEPT !.code = code, !.success = (code = 200), !.snapshotId = sid,
                 !.snapshotId2 = sid2, !.docId = docId, !.docId2 = docId2,
                 !.saved = docId # 0, !.status = IF code = 200 THEN Triggered ELSE Null]

\* the route's 500 answer; `tag` is what the thrown error's message starts with
TriggerError(tag) == [TriggerAnswer(500, Null, Null, 0, 0) EXCEPT !.error = tag]

SingleTypes == {"job_search", "linkedin_companies"}

\* runBrightDataJobWithWebhook / runLinkedInCompanyJob: the one POST failed, the
\* operation throws what apiClient.post threw and the API route answers 500
TriggerFails(s, in) ==
  /\ Begin(s, in)
  /\ in.type \in SingleTypes
  /\ in.linkedin = ApiFailure
  /\ Reply(s, [Idle EXCEPT !.in = in, !.linkedinCall = "failed", !.posts.linkedin = 1],
           TriggerError("Request failed"))
  /\ UNCHANGED <<dPayload, dNow, dOut, env, store, nextDocId, files, now, storeUp>>

\* the answer is not an array and has none of the four identifier fields
TriggerInvalid(s, in) ==
  /\ Begin(s, in)
  /\ in.type \in SingleTypes
  /\ in.linkedin # ApiFailure
  /\ ~IsArray(in.linkedin)
  /\ ~Truthy(TriggerId(in.linkedin))
  /\ Reply(s, [Idle EXCEPT !.in = in, !.linkedinCall = "ok", !.posts.linkedin = 1],
           TriggerError("Invalid trigger response"))
  /\ UNCHANGED <<dPayload, dNow, dOut, env, store, nextDocId, files, now, storeUp>>

\* the answer is an array: it is handed back as direct results
TriggerDirect(s, in) ==
  /\ Begin(s, in)
  /\ in.type \in SingleTypes
  /\ in.linkedin # ApiFailure
  /\ IsArray(in.linkedin)
  /\ Reply(s, [Idle EXCEPT !.in = in, !.linkedinCall = "ok", !.posts.linkedin = 1],
           [TriggerAnswer(200, Null, Null, 0, 0) EXCEPT !.action = "direct", !.status = Null])
  /\ UNCHANGED <<dPayload, dNow, dOut, env, store, nextDocId, files, now, storeUp>>

\* runBrightDataJobWithWebhook / runLinkedInCompanyJob: saveJobData is called
\* with the operation's job type; when getCollection rejects it the catch
\* keeps firebaseDocId null and the identifier is returned all the same
TriggerSingle(s, in) ==
  LET sid == TriggerId(in.linkedin)
      r == [Idle EXCEPT !.in = in, !.det = Detected(<<>>, sid),
                        !.jobType = PlaceholderType(in.type),
                        !.linkedinCall = "ok", !.posts.linkedin = 1]
  IN
  /\ Begin(s, in)
  /\ in.type \in SingleTypes
  /\ in.linkedin # ApiFailure
  /\ ~IsArray(in.linkedin)
  /\ Truthy(sid)
  /\ IF getCollection(PlaceholderType(in.type)) = NoCollection
     THEN Reply(s, [r EXCEPT !.writeFailed = TRUE], TriggerAnswer(200, sid, Null, 0, 0))
     ELSE req' = [req EXCEPT ![s] = [r EXCEPT !.pc = "saveOnly"]]
  /\ UNCHANGED <<dPayload, dNow, dOut, env, store, nextDocId, files, now, storeUp>>

\* runBothPlatformsSimultaneously: triggerBothPlatformsSimultaneously starts the
\* LinkedIn POST and the Indeed POST and awaits Promise.all of the two
TriggerBoth(s, in) ==
  /\ Begin(s, in)
  /\ in.type = "both_platforms"
  /\ req' = [req EXCEPT ![s] =
       [Idle EXCEPT !.pc = "calls", !.in = in,
                    !.linkedinCall = "flying", !.indeedCall = "flying",
                    !.posts = [linkedin |-> 1, indeed |-> 1]]]
  /\ UNCHANGED <<dPayload, dNow, dOut, env, store, nextDocId, files, now, storeUp>>

\* what triggerIndeedCollectionWithWebhook resolved with: the answer to its
\* first POST, or to the fallback POST when the first one failed
IndeedAnswer(r) == IF r.posts.indeed = 2 THEN r.in.fallback ELSE r.in.indeed

\* variant: the identifiers are not looked for before the placeholders are saved
JoinBoth_NoIdCheck(s, r) ==
  req' = [req EXCEPT ![s] =
    [r EXCEPT !.pc = "saveLinkedin", !.det = Detected(<<>>, TriggerId(r.in.linkedin))]]

\* Promise.all resolved: both answers are in and the controller looks for the
\* two identifiers
JoinBoth(s, r) ==
  IF Truthy(TriggerId(r.in.linkedin)) /\ Truthy(TriggerId(IndeedAnswer(r)))
  THEN req' = [req EXCEPT ![s] =
         [r EXCEPT !.pc = "saveLinkedin", !.det = Detected(<<>>, TriggerId(r.in.linkedin))]]
  ELSE Reply(s, r, TriggerError("Missing snapshot IDs"))

\* variant: a rejection is held back until the other call has settled
RejectBoth_WaitsForBoth(s, r, tag) ==
  IF r.pc = "calls" /\ r.linkedinCall # "flying" /\ r.indeedCall # "flying"
  THEN Reply(s, r, TriggerError(tag))
  ELSE req' = [req EXCEPT ![s] = r]

\* Promise.all rejects with the first rejection, whatever the other call does
RejectBoth(s, r, tag) ==
  IF r.pc = "calls"
  THEN Reply(s, r, TriggerError(tag))
  ELSE req' = [req EXCEPT ![s] = r]

LinkedinReturns(s) ==
  /\ req[s].linkedinCall = "flying"
  /\ req[s].in.linkedin # ApiFailure
  /\ LET r == [req[s] EXCEPT !.linkedinCall = "ok"] IN
       IF r.pc = "calls" /\ r.indeedCall = "ok"
       THEN JoinBoth(s, r)
       ELSE req' = [req EXCEPT ![s] = r]
  /\ UNCHANGED <<dPayload, dNow, dOut, env, store, nextDocId, files, now, storeUp, started>>

LinkedinFails(s) ==
  /\ req[s].linkedinCall = "flying"
  /\ req[s].in.linkedin = ApiFailure
  /\ RejectBoth(s, [req[s] EXCEPT !.linkedinCall = "failed"], "LinkedIn")
  /\ UNCHANGED <<dPayload, dNow, dOut, env, store, nextDocId, files, now, storeUp, started>>

IndeedReturns(s) ==
  /\ req[s].indeedCall = "flying"
  /\ IndeedAnswer(req[s]) # ApiFailure
  /\ LET r == [req[s] EXCEPT !.indeedCall = "ok"] IN
       IF r.pc = "calls" /\ r.linkedinCall = "ok"
       THEN JoinBoth(s, r)
       ELSE req' = [req EXCEPT ![s] = r]
  /\ UNCHANGED <<dPayload, dNow, dOut, env, store, nextDocId, files, now, storeUp, started>>

\* the first Indeed POST failed: the catch of triggerIndeedCollectionWithWebhook
\* sends a second POST with the sample job URLs
IndeedFallback(s) ==
  /\ req[s].indeedCall = "flying"
  /\ req[s].posts.indeed = 1
  /\ req[s].in.indeed = ApiFailure
  /\ req' = [req EXCEPT ![s].posts.indeed = 2]
  /\ UNCHANGED <<dPayload, dNow, dOut, env, store, nextDocId, files, now, storeUp, started>>

\* the fallback POST failed as well
IndeedFails(s) ==
  /\ req[s].indeedCall = "flying"
  /\ req[s].posts.indeed = 2
  /\ req[s].in.fallback = ApiFailure
  /\ RejectBoth(s, [req[s] EXCEPT !.indeedCall = "failed"], "Indeed")
  /\ UNCHANGED <<dPayload, dNow, dOut, env, store, nextDocId, files, now, storeUp, started>>

SaveLinkedin(s) ==
  /\ req[s].pc = "saveLinkedin"
  /\ storeUp
  /\ store' = [store EXCEPT ![getCollection("linkedin_jobs")] =
                 @ \cup {SavedDoc(nextDocId, Placeholder(TriggerId(req[s].in.linkedin), "linkedin_jobs", now), now)}]
  /\ nextDocId' = nextDocId + 1
  /\ req' = [req EXCEPT ![s].pc = "saveIndeed", ![s].docId = nextDocId]
  /\ UNCHANGED <<dPayload, dNow, dOut, env, files, now, storeUp, started>>

SaveIndeed(s) ==
  /\ req[s].pc = "saveIndeed"
  /\ storeUp
  /\ store' = [store EXCEPT ![getCollection("indeed_jobs")] =
                 @ \cup {SavedDoc(nextDocId, Placeholder(TriggerId(IndeedAnswer(req[s])), "indeed_jobs", now), now)}]
  /\ nextDocId' = nextDocId + 1
  /\ Reply(s, req[s], TriggerAnswer(200, TriggerId(req[s].in.linkedin),
                                    TriggerId(IndeedAnswer(req[s])), req[s].docId, nextDocId))
  /\ UNCHANGED <<dPayload, dNow, dOut, env, files, now, storeUp, started>>

\* one add() failed: the single catch around both saves skips what is left
SavePlaceholderFails(s) ==
  /\ req[s].pc \in {"saveLinkedin", "saveIndeed"}
  /\ ~storeUp
  /\ Reply(s, [req[s] EXCEPT !.writeFailed = TRUE, !.outage = TRUE],
           TriggerAnswer(200, TriggerId(req[s].in.linkedin),
                         TriggerId(IndeedAnswer(req[s])), req[s].docId, 0))
  /\ UNCHANGED <<dPayload, dNow, dOut, env, store, nextDocId, files, now, storeUp, started>>

\* ------------------------------------------------------------------------
\* Local backup reader (services/brightdataService, pages/api/webhook-data)
\* ------------------------------------------------------------------------
\* f.startsWith(`${kind}_${snapshotId}_`): the pieces of the prefix, then "_"
StartsWith(name, prefix) ==
  Len(name) > Len(prefix) /\ SubSeq(name, 1, Len(prefix)) = prefix

\* the value a piece written from Date.now() stands for
Stamp(piece) == CHOOSE t \in 0..MaxClock : ToString(t) = piece

\* a < b in the order Array.prototype.sort puts file names in, by code unit.
\* Date.now() has thirteen digits over the life of the program, so timestamp
\* pieces compare as their values, and a name that stops (".json") sorts
\* before one that goes on ("_")
RECURSIVE NameBefore(_, _)
NameBefore(a, b) ==
  IF a = <<>> THEN b # <<>>
  ELSE IF b = <<>> THEN FALSE
  ELSE IF Head(a) = Head(b) THEN NameBefore(Tail(a), Tail(b))
  ELSE Stamp(Head(a)) < Stamp(Head(b))

\* list.sort().pop()
Latest(list) == CHOOSE f \in list : \A g \in list \ {f} : NameBefore(g.name, f.name)

getWebhookData(snapshotId) ==
  LET webhookFiles == {f \in files : StartsWith(f.name, <<"webhook">> \o snapshotId.v)}
      dataFiles == {f \in files : StartsWith(f.name, <<"data">> \o snapshotId.v)}
  IN  IF dataFiles # {}
      THEN Latest(dataFiles).content
      ELSE IF webhookFiles # {}
      THEN Or(Latest(webhookFiles).content.data, Arr(<<>>))
      ELSE Arr(<<>>)

\* handleGetSnapshotData with source=local
GetSnapshotData(s, in) ==
  LET localData == getWebhookData(in.snapshotId)
      found == Len(localData.v) > 0
  IN
  /\ Begin(s, in)
  /\ Reply(s, [Idle EXCEPT !.in = in],
           [NoResp EXCEPT !.code = IF found THEN 200 ELSE 404,
                          !.success = found, !.found = found,
                          !.snapshotId = in.snapshotId,
                          !.dataCount = Len(localData.v),
                          !.data = IF found THEN localData ELSE Null])
  /\ UNCHANGED <<dPayload, dNow, dOut, env, store, nextDocId, files, now, storeUp>>

\* file.match(/^(webhook|data)_([^_]+)_/): the kind, one non-empty piece without
\* underscore, and an underscore after it
FileMatch(name) == Len(name) >= 3 /\ name[1] \in {"webhook", "data"} /\ name[2] # ""

\* the Set of match[2] over the files of the output folder
getAllSnapshots ==
  {Str(<<f.name[2]>>) : f \in {g \in files : FileMatch(g.name)}}

\* handleListSnapshots with source=local
ListSnapshots(s, in) ==
  /\ Begin(s, in)
  /\ Reply(s, [Idle EXCEPT !.in = in],
           [NoResp EXCEPT !.code = 200, !.success = TRUE, !.local = getAllSnapshots,
                          !.dataCount = Cardinality(getAllSnapshots)])
  /\ UNCHANGED <<dPayload, dNow, dOut, env, store, nextDocId, files, now, storeUp>>

\* ------------------------------------------------------------------------
\* Persistence Gateway, single-collection version (collection brightdata_jobs)
\* ------------------------------------------------------------------------
Jobs == "brightdata_jobs"

\* the `data` a caller passes or a document holds
OneRecord == Arr(<<Filler>>)
TwoRecords == Arr(<<Filler, Filler>>)
NoRecords == Arr(<<>>)

\* saveJobData: data is forced to an array, and the spread of the caller's
\* metadata comes after dataCount and overrides it
SavedJob(docId, jobData) ==
  LET dataArray == IF IsArray(jobData.data) THEN jobData.data ELSE NoRecords IN
  [docId |-> docId, data |-> dataArray,
   dataCount |-> IF jobData.dataCount # NoCount THEN jobData.dataCount
                 ELSE Len(dataArray.v),
   fixedAt |-> FALSE]

\* updateJobData, what collection.doc(docId).update(updates) leaves: the keys
\* of updateData replace the stored ones, a `metadata` key replaces the whole
\* map, and a data array sets the count, in that map or by its field path
UpdatedJob(doc, updateData) ==
  [doc EXCEPT
     !.data = IF updateData.data # Undef THEN updateData.data ELSE @,
     !.dataCount = IF IsArray(updateData.data) THEN Len(updateData.data.v)
                   ELSE IF updateData.hasMetadata THEN updateData.dataCount
                   ELSE @,
     !.fixedAt = IF updateData.hasMetadata THEN updateData.fixedAt ELSE @]

\* Array.isArray(data.data) ? data.data.length : 0
ActualCount(doc) == IF IsArray(doc.data) THEN Len(doc.data.v) ELSE 0

\* data.metadata.dataCount || 0
RecordedCount(doc) == IF doc.dataCount = NoCount THEN 0 ELSE doc.dataCount

findDataCountMismatches == {d \in store[Jobs] : ActualCount(d) # RecordedCount(d)}

\* what callers hand to saveJobData and updateJobData
JobDatas ==
  {[data |-> d, dataCount |-> c] :
     d \in {NoRecords, OneRecord, TwoRecords, Undef}, c \in {NoCount, 0, 1}}

UpdateDatas ==
  {[data |-> d, hasMetadata |-> FALSE, dataCount |-> NoCount, fixedAt |-> FALSE] :
     d \in {NoRecords, TwoRecords, NotAnArray}}
  \cup {[data |-> Undef, hasMetadata |-> TRUE, dataCount |-> c, fixedAt |-> FALSE] :
          c \in {NoCount, 0, 1}}
  \cup {[data |-> OneRecord, hasMetadata |-> TRUE, dataCount |-> 0, fixedAt |-> FALSE]}

\* one run of fixDataCountMismatches: position, the mismatches still to fix,
\* the counter `fixed`, what it returned; `before`, `startedAt` and `after`
\* remember the number of mismatches it found, the number of writes made
\* when it read the collection, and whether it started right after a run
NoRepair ==
  [pc |-> "idle", in |-> [op |-> "repair"], mismatches |-> {}, fixed |-> 0,
   result |-> NoCount, threw |-> FALSE, before |-> 0, startedAt |-> 0,
   after |-> FALSE, runs |-> 0]

SaveJob(jobData) ==
  /\ started < MaxReqs
  /\ started' = started + 1
  /\ store' = [store EXCEPT ![Jobs] = @ \cup {SavedJob(nextDocId, jobData)}]
  /\ nextDocId' = nextDocId + 1
  /\ UNCHANGED <<dPayload, dNow, dOut, env, files, now, storeUp, req>>

\* PUT /api/firebase-jobs?jobId=..., and the handler's updates
UpdateJob(docId, updateData) ==
  /\ started < MaxReqs
  /\ started' = started + 1
  /\ \E d \in store[Jobs] :
       /\ d.docId = docId
       /\ store' = [store EXCEPT ![Jobs] = (@ \ {d}) \cup {UpdatedJob(d, updateData)}]
  /\ UNCHANGED <<dPayload, dNow, dOut, env, nextDocId, files, now, storeUp, req>>

\* DELETE /api/firebase-jobs?jobId=...
DeleteJob(docId) ==
  /\ started < MaxReqs
  /\ started' = started + 1
  /\ \E d \in store[Jobs] :
       /\ d.docId = docId
       /\ store' = [store EXCEPT ![Jobs] = @ \ {d}]
  /\ UNCHANGED <<dPayload, dNow, dOut, env, nextDocId, files, now, storeUp, req>>

\* fixDataCountMismatches up to the end of findDataCountMismatches
RepairFind(s) ==
  /\ req[s].pc \in {"idle", "done"}
  /\ req[s].runs < MaxRuns
  /\ req' = [req EXCEPT ![s] =
       [NoRepair EXCEPT !.pc = "fix", !.mismatches = findDataCountMismatches,
                        !.before = Cardinality(findDataCountMismatches),
                        !.startedAt = started,
                        !.after = (req[s].pc = "done" /\ ~req[s].threw
                                   /\ req[s].startedAt = started),
                        !.runs = req[s].runs + 1]]
  /\ UNCHANGED <<dPayload, dNow, dOut, env, store, nextDocId, files, now, storeUp, started>>

\* the mismatch the loop is at: documents come in the order of their ids
NextMismatch(r) == CHOOSE j \in r.mismatches : \A k \in r.mismatches : j.docId <= k.docId

\* variant: the count written back is the one that was recorded
RepairFixOne_WritesRecorded(s) ==
  LET job == NextMismatch(req[s]) IN
  /\ req[s].pc = "fix"
  /\ req[s].mismatches # {}
  /\ \E d \in store[Jobs] :
       /\ d.docId = job.docId
       /\ store' = [store EXCEPT ![Jobs] =
            (@ \ {d}) \cup
            {UpdatedJob(d, [data |-> Undef, hasMetadata |-> TRUE,
                            dataCount |-> RecordedCount(job), fixedAt |-> TRUE])}]
  /\ req' = [req EXCEPT ![s].mismatches = @ \ {job}, ![s].fixed = @ + 1]
  /\ UNCHANGED <<dPayload, dNow, dOut, env, nextDocId, files, now, storeUp, started>>

\* one turn of the loop: updateJobData(job.id, {metadata: {...job.metadata,
\* dataCount: actualCount, fixedAt}}) with the job as it was read
RepairFixOne(s) ==
  LET job == NextMismatch(req[s]) IN
  /\ req[s].pc = "fix"
  /\ req[s].mismatches # {}
  /\ \E d \in store[Jobs] :
       /\ d.docId = job.docId
       /\ store' = [store EXCEPT ![Jobs] =
            (@ \ {d}) \cup
            {UpdatedJob(d, [data |-> Undef, hasMetadata |-> TRUE,
                            dataCount |-> ActualCount(job), fixedAt |-> TRUE])}]
  /\ req' = [req EXCEPT ![s].mismatches = @ \ {job}, ![s].fixed = @ + 1]
  /\ UNCHANGED <<dPayload, dNow, dOut, env, nextDocId, files, now, storeUp, started>>

\* update() of a document that is gone rejects: the repair rethrows
RepairThrows(s) ==
  /\ req[s].pc = "fix"
  /\ req[s].mismatches # {}
  /\ ~\E d \in store[Jobs] : d.docId = NextMismatch(req[s]).docId
  /\ req' = [req EXCEPT ![s].pc = "done", ![s].threw = TRUE]
  /\ UNCHANGED <<dPayload, dNow, dOut, env, store, nextDocId, files, now, storeUp, started>>

\* return fixed
RepairDone(s) ==
  /\ req[s].pc = "fix"
  /\ req[s].mismatches = {}
  /\ req' = [req EXCEPT ![s].pc = "done", ![s].result = req[s].fixed]
  /\ UNCHANGED <<dPayload, dNow, dOut, env, store, nextDocId, files, now, storeUp, started>>

\* ------------------------------------------------------------------------
\* The gateway called directly: saveJobData and updateJobData on any argument
\* ------------------------------------------------------------------------
\* {salary: null}: a record that the cleaning leaves without any key
OnlyNull == [BaseItem EXCEPT !.salary = Null]

GatewayRecords == {<<>>, <<IndeedItem>>, <<Filler, Filler>>, <<OnlyNull>>}

GatewayJobDatas ==
  {[snapshotId |-> X, status |-> st, jobType |-> ty, data |-> d, dataCount |-> c,
    triggeredAt |-> Undef, createdAt |-> Undef, searchParams |-> {}] :
     st \in {Undef, Triggered}, ty \in {"linkedin_jobs", "indeed", "job_search"},
     d \in GatewayRecords, c \in {NoCount, 0, 1}}

GatewayUpdateDatas ==
  {[status |-> Completed, hasData |-> TRUE, data |-> d, dataCount |-> c,
    triggeredAt |-> Undef] :
     d \in GatewayRecords, c \in {NoCount, 0, 1}}
  \cup {[status |-> Failed, hasData |-> FALSE, data |-> <<>>, dataCount |-> c,
          triggeredAt |-> Undef] :
          c \in {0, 1}}

SaveCall(jobData) == [op |-> "save", jobData |-> jobData]
UpdateCall(docId, updateData, jobType) ==
  [op |-> "update", docId |-> docId, updateData |-> updateData, jobType |-> jobType]

\* saveJobData: getCollection throws for the job type, the error is rethrown
GatewaySaveThrows(s, jobData) ==
  /\ Begin(s, SaveCall(jobData))
  /\ getCollection(jobData.jobType) = NoCollection
  /\ req' = [req EXCEPT ![s] = [Idle EXCEPT !.pc = "done", !.in = SaveCall(jobData),
                                            !.writeFailed = TRUE]]
  /\ UNCHANGED <<dPayload, dNow, dOut, env, store, nextDocId, files, now, storeUp>>

\* saveJobData: the cleaned document is added to the collection of its type
GatewaySave(s, jobData) ==
  /\ Begin(s, SaveCall(jobData))
  /\ getCollection(jobData.jobType) # NoCollection
  /\ store' = [store EXCEPT ![getCollection(jobData.jobType)] =
                 @ \cup {SavedDoc(nextDocId, jobData, now)}]
  /\ nextDocId' = nextDocId + 1
  /\ req' = [req EXCEPT ![s] = [Idle EXCEPT !.pc = "done", !.in = SaveCall(jobData),
                                            !.docId = nextDocId]]
  /\ UNCHANGED <<dPayload, dNow, dOut, env, files, now, storeUp>>

\* updateJobData: the document is in the collection of jobType and is updated
GatewayUpdate(s, docId, updateData, jobType) ==
  /\ Begin(s, UpdateCall(docId, updateData, jobType))
  /\ getCollection(jobType) # NoCollection
  /\ \E d \in store[getCollection(jobType)] :
       /\ d.docId = docId
       /\ store' = [store EXCEPT ![getCollection(jobType)] =
                      (@ \ {d}) \cup {UpdatedDoc(d, updateData)}]
  /\ req' = [req EXCEPT ![s] =
       [Idle EXCEPT !.pc = "done", !.in = UpdateCall(docId, updateData, jobType),
                    !.docId = docId]]
  /\ UNCHANGED <<dPayload, dNow, dOut, env, nextDocId, files, now, storeUp>>

\* updateJobData: unknown job type, or `Document ${docId} not found`
GatewayUpdateThrows(s, docId, updateData, jobType) ==
  /\ Begin(s, UpdateCall(docId, updateData, jobType))
  /\ IF getCollection(jobType) = NoCollection THEN TRUE
     ELSE ~\E d \in store[getCollection(jobType)] : d.docId = docId
  /\ req' = [req EXCEPT ![s] =
       [Idle EXCEPT !.pc = "done", !.in = UpdateCall(docId, updateData, jobType),
                    !.writeFailed = TRUE]]
  /\ UNCHANGED <<dPayload, dNow, dOut, env, store, nextDocId, files, now, storeUp>>

\* ------------------------------------------------------------------------
\* Environment
\* ------------------------------------------------------------------------
Tick ==
  /\ now < MaxClock
  /\ now' = now + 1
  /\ UNCHANGED <<dPayload, dNow, dOut, env, store, nextDocId, files, storeUp, started, req>>

StoreGoesDown ==
  /\ storeUp
  /\ storeUp' = FALSE
  /\ UNCHANGED <<dPayload, dNow, dOut, env, store, nextDocId, files, now, started, req>>

StoreComesBack ==
  /\ ~storeUp
  /\ storeUp' = TRUE
  /\ UNCHANGED <<dPayload, dNow, dOut, env, store, nextDocId, files, now, started, req>>

\* ------------------------------------------------------------------------
\* Specification: requests handled one at a time
\* ------------------------------------------------------------------------
Handlers == {1}

\* the deployment in which the trigger client's auth_header is the expected secret
Deployed == [WEBHOOK_SECRET |-> Undef, BRIGHTDATA_API_KEY |-> ApiKey]

Init ==
  /\ env = Deployed
  /\ store = [p \in Partitions |-> {}]
  /\ nextDocId = 1
  /\ files = {}
  /\ now = 0
  /\ storeUp = TRUE
  /\ started = 0
  /\ req = [s \in Handlers |-> Idle]
  /\ dPayload = EmptyObject /\ dNow = 0 /\ dOut = Pending

Receive(s) ==
  \/ \E in \in WebhookRequests :
       \/ WebhookMethodNotAllowed(s, in)
       \/ WebhookPing(s, in)
       \/ WebhookUnauthorized(s, in)
       \/ WebhookDetectThrows(s, in)
       \/ WebhookNoSnapshotId(s, in)
       \/ WebhookWriteFileThrows(s, in)
       \/ WebhookAccept(s, in)
  \/ \E in \in TriggerRequests :
       \/ TriggerFails(s, in)
       \/ TriggerInvalid(s, in)
       \/ TriggerDirect(s, in)
       \/ TriggerSingle(s, in)
       \/ TriggerBoth(s, in)
  \/ \E in \in ReadRequests : GetSnapshotData(s, in)
  \/ \E in \in ListRequests : ListSnapshots(s, in)

Continue(s) ==
  \/ LookupFails(s)
  \/ LookupFound(s)
  \/ LookupUnreadable(s)
  \/ LookupNextCollection(s)
  \/ LookupNotFound(s)
  \/ InsertDone(s)
  \/ InsertFails(s)
  \/ UpdateRead(s)
  \/ UpdateDone(s)
  \/ UpdateFails(s)
  \/ LinkedinReturns(s)
  \/ LinkedinFails(s)
  \/ IndeedReturns(s)
  \/ IndeedFallback(s)
  \/ IndeedFails(s)
  \/ SaveLinkedin(s)
  \/ SaveIndeed(s)
  \/ SavePlaceholderFails(s)

Next ==
  \/ \E s \in Handlers : Receive(s) \/ Continue(s)
  \/ Tick
  \/ StoreGoesDown
  \/ StoreComesBack

Spec == Init /\ [][Next]_vars

\* the same system under every configuration of the secrets
EnvInit ==
  /\ env \in Environments
  /\ store = [p \in Partitions |-> {}]
  /\ nextDocId = 1 /\ files = {} /\ now = 0 /\ storeUp = TRUE /\ started = 0
  /\ req = [s \in Handlers |-> Idle]
  /\ dPayload = EmptyObject /\ dNow = 0 /\ dOut = Pending

EnvSpec == EnvInit /\ [][Next]_vars

\* ------------------------------------------------------------------------
\* Specification of the Shape Detector applied to one payload
\* ------------------------------------------------------------------------
DetectInit ==
  /\ DetectStart
  /\ env = [WEBHOOK_SECRET |-> Undef, BRIGHTDATA_API_KEY |-> Undef]
  /\ store = [p \in Partitions |-> {}]
  /\ nextDocId = 1 /\ files = {} /\ now = 0 /\ storeUp = TRUE /\ started = 0
  /\ req = [s \in Handlers |-> Idle]

DetectNext ==
  /\ DetectArray \/ DetectObject
  /\ UNCHANGED <<env, store, nextDocId, files, now, storeUp, started, req>>

DetectSpec == DetectInit /\ [][DetectNext]_vars

\* ------------------------------------------------------------------------
\* Specification of the single-collection gateway: writers and the repair
\* ------------------------------------------------------------------------
RepairInit ==
  /\ env = [WEBHOOK_SECRET |-> Undef, BRIGHTDATA_API_KEY |-> Undef]
  /\ store = [c \in {Jobs} |-> {}]
  /\ nextDocId = 1 /\ files = {} /\ now = 0 /\ storeUp = TRUE /\ started = 0
  /\ req = [s \in Handlers |-> NoRepair]
  /\ dPayload = EmptyObject /\ dNow = 0 /\ dOut = Pending

RepairNext ==
  \/ \E jobData \in JobDatas : SaveJob(jobData)
  \/ \E docId \in 1..MaxReqs, updateData \in UpdateDatas : UpdateJob(docId, updateData)
  \/ \E docId \in 1..MaxReqs : DeleteJob(docId)
  \/ \E s \in Handlers :
       \/ RepairFind(s)
       \/ RepairFixOne(s)
       \/ RepairThrows(s)
       \/ RepairDone(s)

RepairSpec == RepairInit /\ [][RepairNext]_vars

\* ------------------------------------------------------------------------
\* Specification of the gateway under direct calls
\* ------------------------------------------------------------------------
GatewayNext ==
  \E s \in Handlers :
    \/ \E jobData \in GatewayJobDatas :
         \/ GatewaySave(s, jobData)
         \/ GatewaySaveThrows(s, jobData)
    \/ \E docId \in 1..MaxReqs, updateData \in GatewayUpdateDatas,
          jobType \in {"linkedin_jobs", "indeed_jobs", "job_search"} :
         \/ GatewayUpdate(s, docId, updateData, jobType)
         \/ GatewayUpdateThrows(s, docId, updateData, jobType)

GatewaySpec == Init /\ [][GatewayNext]_vars

\* ------------------------------------------------------------------------
\* Specification: two deliveries for one identifier handled concurrently
\* ------------------------------------------------------------------------
Racers == {1, 2}

RaceRequests ==
  {WebhookRequest("POST", [NoAuth EXCEPT !.auth_header = ApiKey], DataPayload(X, f, n)) :
     f \in {LinkedinJobItem, IndeedItem}, n \in 1..MaxRecs}

\* the record a trigger or an earlier delivery left for X, under document id 1
RaceStores ==
  {[p \in Partitions |-> {}],
   [p \in Partitions |->
      IF p = "linkedin_jobs" THEN {SavedDoc(1, Placeholder(X, "linkedin_jobs", 0), 0)} ELSE {}],
   [p \in Partitions |->
      IF p = "linkedin_jobs"
      THEN {SavedDoc(1, [snapshotId |-> X, status |-> Completed, jobType |-> "linkedin_jobs",
                         data |-> <<LinkedinJobItem>>, dataCount |-> 1,
                         triggeredAt |-> formatTimestamp(0), createdAt |-> Undef,
                         searchParams |-> {}], 0)}
      ELSE {}],
   [p \in Partitions |->
      IF p = "indeed_jobs"
      THEN {SavedDoc(1, [snapshotId |-> X, status |-> Completed, jobType |-> "indeed_jobs",
                         data |-> <<IndeedItem>>, dataCount |-> 1,
                         triggeredAt |-> formatTimestamp(0), createdAt |-> Undef,
                         searchParams |-> {}], 0)}
      ELSE {}]}

RaceInit ==
  /\ env = Deployed
  /\ store \in RaceStores
  /\ nextDocId = 2
  /\ files = {} /\ now = 0 /\ storeUp = TRUE /\ started = 0
  /\ req = [s \in Racers |-> Idle]
  /\ dPayload = EmptyObject /\ dNow = 0 /\ dOut = Pending

RaceNext ==
  \E s \in Racers :
    \/ \E in \in RaceRequests : WebhookAccept(s, in)
    \/ LookupFound(s)
    \/ LookupUnreadable(s)
    \/ LookupNextCollection(s)
    \/ LookupNotFound(s)
    \/ InsertDone(s)
    \/ UpdateRead(s)
    \/ UpdateDone(s)

RaceSpec == RaceInit /\ [][RaceNext]_vars

\* ------------------------------------------------------------------------
\* Specification: deliveries echoing the trigger URL's auth_header, under
\* every configuration of the three secrets, after a both_platforms trigger
\* ------------------------------------------------------------------------
EchoInit ==
  /\ env \in TriggerEnvironments
  /\ store = [p \in Partitions |->
                IF p = "linkedin_jobs" THEN {SavedDoc(1, Placeholder(X, "linkedin_jobs", 0), 0)}
                ELSE {SavedDoc(2, Placeholder(Y, "indeed_jobs", 0), 0)}]
  /\ nextDocId = 3
  /\ files = {} /\ now = 0 /\ storeUp = TRUE /\ started = 0
  /\ req = [s \in Handlers |-> Idle]
  /\ dPayload = EmptyObject /\ dNow = 0 /\ dOut = Pending

EchoNext ==
  \E s \in Handlers :
    \/ \E in \in EchoDeliveries(env) : WebhookUnauthorized(s, in)
    \/ \E in \in EchoDeliveries(env) : WebhookAccept(s, in)
    \/ LookupFound(s)
    \/ LookupUnreadable(s)
    \/ LookupNextCollection(s)
    \/ InsertDone(s)
    \/ UpdateRead(s)
    \/ UpdateDone(s)

EchoSpec == EchoInit /\ [][EchoNext]_vars

\* ------------------------------------------------------------------------
\* Specification of the Record Classifier applied to one batch
\* ------------------------------------------------------------------------
ClassifyInit ==
  /\ ClassifyStart
  /\ env = [WEBHOOK_SECRET |-> Undef, BRIGHTDATA_API_KEY |-> Undef]
  /\ store = [p \in Partitions |-> {}]
  /\ nextDocId = 1 /\ files = {} /\ now = 0 /\ storeUp = TRUE /\ started = 0
  /\ req = [s \in Handlers |-> Idle]

ClassifyNext ==
  /\ Classify
  /\ UNCHANGED <<env, store, nextDocId, files, now, storeUp, started, req>>

ClassifySpec == ClassifyInit /\ [][ClassifyNext]_vars

\* first non-empty of the four identifier fields, in the documented order
FirstId(o) ==
  IF Truthy(o.snapshot_id) THEN o.snapshot_id
  ELSE IF Truthy(o.snapshot) THEN o.snapshot
  ELSE IF Truthy(o.id) THEN o.id
  ELSE IF Truthy(o.snapshotId) THEN o.snapshotId
  ELSE Null

IsObject(p) == p.t = "object"
HasDataArray(p) == IsObject(p) /\ p.data.t = "array"
HasResultsArray(p) == IsObject(p) /\ p.results.t = "array"
LooksLikeRecord(p) ==
  IsObject(p) /\ (Truthy(p.job_title) \/ Truthy(p.company) \/ Truthy(p.job_url))

\* C4: the shape rules are tried in the order bare array, `data` array,
\* single record, `results` array, status-only and the first match wins; an
\* object with both a `data` and a `results` array yields the `data` array and
\* the first non-empty of snapshot_id, snapshot, id, snapshotId.
C4_ShapePriority ==
  (DetectDone /\ ~IsArray(dPayload)) =>
    /\ HasDataArray(dPayload) =>
         /\ ~dOut.threw
         /\ dOut.data = dPayload.data.v
         /\ dOut.snapshotId = FirstId(dPayload)
    /\ (~HasDataArray(dPayload) /\ LooksLikeRecord(dPayload)) =>
         /\ Len(dOut.data) = 1
         /\ dOut.data[1].job_title = dPayload.job_title
         /\ Truthy(dOut.snapshotId)
    /\ (~HasDataArray(dPayload) /\ ~LooksLikeRecord(dPayload) /\ HasResultsArray(dPayload)) =>
         /\ dOut.data = dPayload.results.v
         /\ dOut.snapshotId = FirstId(dPayload)

C4_Witness ==
  /\ DetectDone
  /\ HasDataArray(dPayload) /\ HasResultsArray(dPayload)
  /\ Len(dPayload.data.v) = 2 /\ Len(dPayload.results.v) = 1
  /\ ~Truthy(dPayload.snapshot_id) /\ dPayload.snapshot = B /\ dPayload.id = C
  /\ dOut.data = dPayload.data.v /\ dOut.snapshotId = B

\* C5 as claimed: every bare array of N objects gives N records, no error and
\* a non-empty identifier (input's, else the first element's, else synthesized).
C5_BareArrayClaim ==
  (DetectDone /\ IsArray(dPayload)) =>
    /\ ~dOut.threw
    /\ Len(dOut.data) = Len(dPayload.v)
    /\ Truthy(dOut.snapshotId)
    /\ Len(dPayload.v) > 0 =>
         LET first == dPayload.v[1] IN
         dOut.snapshotId =
           IF Truthy(FirstId(first.input)) THEN FirstId(first.input)
           ELSE IF Truthy(FirstId(first)) THEN FirstId(first)
           ELSE JobTag(first, dNow)

\* C6 as claimed: a status-only object with any of the four identifier fields
\* non-empty gives zero records and that identifier.
C6_StatusOnlyClaim ==
  (/\ DetectDone /\ IsObject(dPayload)
   /\ dPayload.status # Undef
   /\ ~HasDataArray(dPayload) /\ ~HasResultsArray(dPayload) /\ ~LooksLikeRecord(dPayload)
   /\ Truthy(FirstId(dPayload))) =>
    /\ dOut.data = <<>>
    /\ dOut.snapshotId = FirstId(dPayload)

\* ------------------------------------------------------------------------
\* Properties of the running system
\* ------------------------------------------------------------------------
AllDocs == UNION {store[p] : p \in Partitions}

\* handler s takes in a new request in this step
Received(s) == started' = started + 1 /\ req'[s] # req[s]

\* handler s, past its first await, answers in this step
Ended(s) == InFlight(s) /\ req'[s].pc = "done"

IsDelivery(r) == r.in.op = "webhook"
IsTrigger(r) == r.in.op = "trigger"

\* C1 as claimed: when the only record for an identifier is the placeholder a
\* trigger wrote (status 'triggered', no results), a delivery of n >= 1 records
\* for that identifier leaves that same document completed with n results and
\* dataCount n, and no second record for the identifier.
C1_PlaceholderCompletedClaim ==
  [][\A s \in Handlers :
       LET sid == req[s].det.snapshotId
           n == Len(req[s].det.data)
       IN  (/\ Ended(s) /\ IsDelivery(req[s]) /\ ~req'[s].outage
            /\ n >= 1
            /\ \E d \in DocsWith(sid) :
                 DocsWith(sid) = {d} /\ d.status = Triggered /\ Len(d.data) = 0)
           => \E d \in DocsWith(sid) : \E e \in DocsWith(sid)' :
                /\ DocsWith(sid)' = {e}
                /\ e.docId = d.docId
                /\ e.status = Completed
                /\ Len(e.data) = n
                /\ e.dataCount = n]_vars

\* C2 as claimed: once a trigger operation has returned identifiers and no
\* store call failed, getJobBySnapshotId returns for each of them a record
\* with status 'triggered' and an empty results list.
C2_PlaceholderAfterTriggerClaim ==
  \A s \in Handlers :
    (/\ req[s].pc = "done" /\ IsTrigger(req[s])
     /\ req[s].resp.code = 200 /\ ~req[s].outage)
    => \A sid \in {req[s].resp.snapshotId, req[s].resp.snapshotId2} \ {Null} :
         \E d \in getJobBySnapshotId(sid) : d.status = Triggered /\ d.data = <<>>

\* C3 as claimed: a delivery with records against an empty store creates
\* exactly one record, and the same delivery repeated against the store the
\* first one left updates that record without adding a second one, whatever
\* category the records are given.
C3_IdempotentDeliveryClaim ==
  [][\A s \in Handlers :
       LET sid == req[s].det.snapshotId IN
       (/\ Ended(s) /\ IsDelivery(req[s]) /\ ~req'[s].outage
        /\ Len(req[s].det.data) >= 1)
       => /\ AllDocs = {} => Cardinality(AllDocs') = 1
          /\ \A d \in AllDocs :
               (/\ AllDocs = {d}
                /\ d.snapshotId = sid /\ d.status = Completed
                /\ d.jobType = req[s].jobType
                /\ d.data = CleanData(req[s].det.data))
               => \E e \in AllDocs' : AllDocs' = {e} /\ e.docId = d.docId]_vars

\* the secret is in one of the four places the receiver looks at
SecretPresented(in, secret) ==
  \/ in.authorization = Bearer(secret)
  \/ in.authorization = secret
  \/ in.x_brightdata_auth = secret \/ in.brightdata_auth = secret
  \/ in.auth_header = secret

\* the payload has no shape, or has one that carries no identifier and for
\* which none is made up
NoIdentifier(p) ==
  /\ ~IsArray(p)
  /\ ~IsObject(p) \/ (~LooksLikeRecord(p) /\ ~Truthy(FirstId(p)))

\* C7 as claimed: an authorized delivery whose payload matches no shape, or
\* from which no identifier can be recovered, is answered with a 4xx in a step
\* that changes neither the store nor the output folder.
C7_NoIdentifierRejectedClaim ==
  [][\A s \in Handlers :
       (/\ Received(s) /\ IsDelivery(req'[s])
        /\ req'[s].in.method = "POST"
        /\ ~(Truthy(expectedSecret(env))
             /\ ~SecretPresented(req'[s].in, expectedSecret(env)))
        /\ NoIdentifier(req'[s].in.payload))
       => /\ req'[s].pc = "done"
          /\ req'[s].resp.code \in 400..499
          /\ store' = store /\ files' = files /\ nextDocId' = nextDocId
          /\ req'[s].wrote = {}]_vars

\* C8: with an expected secret configured, a POST that presents it in none of
\* the four places is answered 401 in a step that touches neither the output
\* folder nor the store and starts no lookup; without an expected secret no
\* POST is answered 401.
C8_SecretGate ==
  [][\A s \in Handlers :
       (Received(s) /\ IsDelivery(req'[s]) /\ req'[s].in.method = "POST")
       => LET in == req'[s].in
              expected == expectedSecret(env)
          IN  /\ (Truthy(expected) /\ ~SecretPresented(in, expected))
                 => /\ req'[s].pc = "done"
                    /\ req'[s].resp.code = 401
                    /\ store' = store /\ files' = files /\ nextDocId' = nextDocId
              /\ req'[s].resp.code = 401 => Truthy(expected)]_vars

\* WEBHOOK_SECRET is set, the delivery echoes the API key: refused, nothing kept
C8_Witness ==
  /\ env.WEBHOOK_SECRET = WebhookSecret
  /\ req[1].pc = "done" /\ req[1].in.op = "webhook" /\ req[1].in.method = "POST"
  /\ req[1].in.auth_header = ApiKey
  /\ HasDataArray(req[1].in.payload)
  /\ Len(req[1].in.payload.data.v) = MaxRecs
  /\ req[1].resp.code = 401
  /\ files = {} /\ AllDocs = {}

\* C9 as claimed: every request whose method is not POST is answered 405.
C9_NonPostRejectedClaim ==
  \A s \in Handlers :
    (req[s].pc = "done" /\ IsDelivery(req[s]) /\ req[s].in.method # "POST")
    => req[s].resp.code = 405

\* C9, amended: a method other than POST and GET is answered 405 and GET is
\* answered 200 (the "consumer is active" message), both before the secret
\* check and without touching the store or the output folder.
C9_MethodGate ==
  [][\A s \in Handlers :
       (Received(s) /\ IsDelivery(req'[s]) /\ req'[s].in.method # "POST")
       => /\ req'[s].pc = "done"
          /\ req'[s].resp.code = IF req'[s].in.method = "GET" THEN 200 ELSE 405
          /\ store' = store /\ files' = files /\ nextDocId' = nextDocId]_vars

\* a PUT without any secret, while a secret is expected: 405, not 401
C9_Witness ==
  /\ req[1].pc = "done" /\ req[1].in.op = "webhook"
  /\ req[1].in.method = "PUT"
  /\ Truthy(expectedSecret(env)) /\ ~SecretPresented(req[1].in, expectedSecret(env))
  /\ req[1].resp.code = 405

FilesKept(r) == \A name \in r.wrote : \E f \in files : f.name = name

\* C10 as claimed: if the lookup or the write failed, the answer is 200 with
\* success=true and firebase.saved=false, and the backup files remain.
C10_StoreFailureClaim ==
  \A s \in Handlers :
    (/\ req[s].pc = "done" /\ IsDelivery(req[s])
     /\ req[s].lookupThrew \/ req[s].writeFailed)
    => /\ req[s].resp.code = 200 /\ req[s].resp.success
       /\ ~req[s].resp.saved
       /\ FilesKept(req[s])

\* C10, amended: if the write failed, or the lookup failed and no write was
\* made after it, the answer is 200 with success=true and firebase.saved=false;
\* if only the lookup failed and the insert after it succeeded, saved is true;
\* in both cases the backup files of the delivery remain.
C10_StoreFailureReported ==
  \A s \in Handlers :
    (/\ req[s].pc = "done" /\ IsDelivery(req[s])
     /\ req[s].lookupThrew \/ req[s].writeFailed)
    => /\ req[s].resp.code = 200 /\ req[s].resp.success
       /\ (req[s].writeFailed \/ req[s].docId = 0) => ~req[s].resp.saved
       /\ (req[s].lookupThrew /\ req[s].docId # 0) =>
            /\ req[s].resp.saved
            /\ \E d \in AllDocs : d.docId = req[s].docId
       /\ req[s].wrote # {} /\ FilesKept(req[s])

\* the store went down before the insert: 200, saved=false, both files there
C10_Witness ==
  /\ req[1].pc = "done" /\ req[1].in.op = "webhook"
  /\ req[1].writeFailed /\ req[1].outage /\ ~req[1].lookupThrew
  /\ Len(req[1].det.data) = MaxRecs
  /\ req[1].resp.code = 200 /\ req[1].resp.success /\ ~req[1].resp.saved
  /\ Cardinality(req[1].wrote) = 2 /\ FilesKept(req[1])
  /\ AllDocs = {}

\* the request ended after saveJobData refused the category of a new record
CategoryRefused(r) ==
  /\ r.pc = "done" /\ r.writeFailed
  /\ r.existing = NoDoc
  /\ getCollection(r.jobType) = NoCollection
  /\ IsTrigger(r) \/ (IsDelivery(r) /\ Len(r.det.data) > 0)

\* C11 as claimed: an insert whose category has no partition writes no record
\* and the caller gets a 5xx answer, for deliveries and triggers alike.
C11_UnknownCategoryClaim ==
  \A s \in Handlers :
    CategoryRefused(req[s]) =>
      /\ req[s].docId = 0
      /\ \A d \in AllDocs : d.jobType # req[s].jobType
      /\ req[s].resp.code \in 500..599

\* C12 as claimed: a delivery with records whose lookup finds nothing, with the
\* store available, inserts one new record holding those records under the
\* category determineJobType gives them, whichever category that is.
C12_InsertDetectedCategoryClaim ==
  [][\A s \in Handlers :
       (/\ Ended(s) /\ IsDelivery(req[s])
        /\ Len(req[s].det.data) > 0
        /\ req'[s].existing = NoDoc
        /\ ~req'[s].lookupThrew /\ ~req'[s].outage)
       => \E e \in AllDocs' \ AllDocs :
            /\ AllDocs' = AllDocs \cup {e}
            /\ e.snapshotId = req[s].det.snapshotId
            /\ e.jobType = determineJobType(req[s].det.data)
            /\ e.status = Completed
            /\ e.data = CleanData(req[s].det.data)]_vars

\* C13: a delivery with n >= 1 records whose lookup returned a record updates
\* that document where it is stored: its results become the delivered records,
\* its status 'completed', its dataCount n; its category and identifier stay,
\* the category detected from the new records is not used, and no document is
\* added. If the update fails the store is left as it was.
C13_UpdateExisting ==
  [][\A s \in Handlers :
       (/\ Ended(s) /\ IsDelivery(req[s])
        /\ Len(req[s].det.data) > 0
        /\ req[s].existing # NoDoc)
       => IF req'[s].writeFailed
          THEN store' = store /\ ~req'[s].resp.saved
          ELSE \E p \in Partitions : \E d \in store[p] :
                 /\ d.docId = req[s].existing.docId
                 /\ p = d.jobType
                 /\ \E e \in store'[p] :
                      /\ store' = [store EXCEPT ![p] = (@ \ {d}) \cup {e}]
                      /\ e.docId = d.docId /\ e.snapshotId = d.snapshotId
                      /\ e.jobType = d.jobType
                      /\ e.data = req[s].det.data
                      /\ e.status = Completed
                      /\ e.dataCount = Len(req[s].det.data)
                 /\ nextDocId' = nextDocId
                 /\ req'[s].resp.saved /\ req'[s].resp.docId = d.docId]_vars

\* company records were delivered for an identifier stored under linkedin_jobs:
\* the one document is still there, under linkedin_jobs, with the new records
C13_Witness ==
  /\ req[1].pc = "done" /\ req[1].in.op = "webhook"
  /\ req[1].existing # NoDoc /\ req[1].existing.jobType = "linkedin_jobs"
  /\ req[1].jobType = "linkedin_company"
  /\ req[1].resp.saved /\ req[1].resp.action = "updated"
  /\ req[1].existing.data # req[1].det.data
  /\ Len(req[1].det.data) = MaxRecs
  /\ \E e \in store["linkedin_jobs"] :
       /\ AllDocs = {e} /\ e.docId = req[1].existing.docId
       /\ e.data = req[1].det.data /\ e.jobType = "linkedin_jobs"

\* C14 as claimed: a delivery without records adds no document; when there is
\* one record for its identifier, that record gets the payload's status (its
\* own status if the payload has none) and keeps its results, its dataCount,
\* its category and its document id; no other document changes.
C14_StatusOnlyPatchClaim ==
  [][\A s \in Handlers :
       (/\ Ended(s) /\ IsDelivery(req[s])
        /\ Len(req[s].det.data) = 0
        /\ ~req'[s].outage)
       => /\ nextDocId' = nextDocId
          /\ Cardinality(AllDocs') = Cardinality(AllDocs)
          /\ DocsWith(req[s].det.snapshotId) = {} => store' = store
          /\ \A d \in DocsWith(req[s].det.snapshotId) :
               DocsWith(req[s].det.snapshotId) = {d} =>
                 \E e \in AllDocs' :
                   /\ AllDocs' = (AllDocs \ {d}) \cup {e}
                   /\ e.docId = d.docId /\ e.jobType = d.jobType
                   /\ e.data = d.data /\ e.dataCount = d.dataCount
                   /\ e.status = Or(req[s].in.payload.status, d.status)]_vars

\* the results list handler s hands to saveJobData
Written(s) == IF IsTrigger(req[s]) THEN <<>> ELSE req[s].det.data

\* C15 as claimed: after saveJobData stored a results list under an identifier
\* that had no record, getJobBySnapshotId returns that record, and its results
\* have the length and order of the written list, each element being the
\* written one without its null and empty fields; the empty list included.
C15_RoundTripClaim ==
  [][\A s \in Handlers :
       \A e \in AllDocs' \ AllDocs :
         (/\ InFlight(s) /\ req'[s] # req[s]
          /\ AllDocs' = AllDocs \cup {e}
          /\ DocsWith(e.snapshotId) = {})
         => \E d \in getJobBySnapshotId(e.snapshotId)' :
              /\ d.docId = e.docId
              /\ Len(d.data) = Len(Written(s))
              /\ \A i \in 1..Len(d.data) : d.data[i] = CleanItem(Written(s)[i])]_vars

\* handler s answers its request in this step
Answers(s) == req'[s].pc = "done" /\ (Received(s) \/ Ended(s))

IsBoth(r) == IsTrigger(r) /\ r.in.type = "both_platforms"

\* every outbound call of the trigger returned, and an answer (an array
\* included) has none of the four identifier fields
AnswerWithoutId(r) ==
  /\ IsTrigger(r)
  /\ r.linkedinCall = "ok"
  /\ IF IsBoth(r)
     THEN /\ r.indeedCall = "ok"
          /\ ~Truthy(FirstId(r.in.linkedin)) \/ ~Truthy(FirstId(IndeedAnswer(r)))
     ELSE ~Truthy(FirstId(r.in.linkedin))

InvalidTriggerResponse == {"Invalid trigger response", "Missing snapshot IDs"}

\* C16 as claimed: a trigger whose API answer has none of the identifier
\* fields fails with an invalid-trigger-response error and leaves the store as
\* it was, whatever the answer is.
C16_InvalidTriggerResponseClaim ==
  [][\A s \in Handlers :
       (Answers(s) /\ AnswerWithoutId(req'[s]))
       => /\ req'[s].resp.code = 500
          /\ req'[s].resp.error \in InvalidTriggerResponse
          /\ req'[s].docId = 0 /\ store' = store]_vars

\* C16, amended: the same for every answer that is not an array, and for an
\* array answer given to the dual-platform trigger; a single-platform trigger
\* hands an array answer back as direct results (200), also without writing.
C16_InvalidTriggerResponse ==
  [][\A s \in Handlers :
       (Answers(s) /\ AnswerWithoutId(req'[s]))
       => /\ req'[s].docId = 0 /\ store' = store /\ nextDocId' = nextDocId
          /\ IF ~IsBoth(req'[s]) /\ IsArray(req'[s].in.linkedin)
             THEN req'[s].resp.code = 200 /\ req'[s].resp.action = "direct"
             ELSE /\ req'[s].resp.code = 500
                  /\ req'[s].resp.error \in InvalidTriggerResponse]_vars

\* LinkedIn answered with an identifier, Indeed with {}: error, nothing stored
C16_Witness ==
  /\ req[1].pc = "done" /\ IsBoth(req[1])
  /\ req[1].in.linkedin = ApiSnapshot(X) /\ req[1].in.indeed = ApiNoId
  /\ req[1].linkedinCall = "ok" /\ req[1].indeedCall = "ok"
  /\ req[1].resp.code = 500 /\ req[1].resp.error = "Missing snapshot IDs"
  /\ AllDocs = {}

\* C17 as claimed: the dual-platform trigger has not completed, with success
\* or with an error, while one of its two calls is in flight, and a failed
\* call makes it fail with an error tagged with that platform.
C17_JoinClaim ==
  \A s \in Handlers :
    (IsBoth(req[s]) /\ req[s].pc = "done")
    => /\ req[s].linkedinCall # "flying" /\ req[s].indeedCall # "flying"
       /\ req[s].linkedinCall = "failed" \/ req[s].indeedCall = "failed"
            => req[s].resp.code = 500 /\ req[s].resp.error \in {"LinkedIn", "Indeed"}

\* C17, amended: the dual-platform trigger goes on (to the identifier check and
\* to a 200 answer) only when both calls have returned; it fails as soon as
\* one call has failed, without waiting for the other, with one error tagged
\* with the platform whose call failed first.
C17_JoinOnSuccessFailFast ==
  \A s \in Handlers :
    IsBoth(req[s]) =>
      LET r == req[s]
          bothOk == r.linkedinCall = "ok" /\ r.indeedCall = "ok"
      IN  /\ r.pc = "calls" =>
               /\ r.linkedinCall # "failed" /\ r.indeedCall # "failed"
               /\ ~bothOk
          /\ r.pc \in {"saveLinkedin", "saveIndeed"} => bothOk
          /\ (r.pc = "done" /\ r.resp.code = 200) => bothOk
          /\ (r.pc = "done" /\ r.resp.code # 200) =>
               \/ r.resp.error = "LinkedIn" /\ r.linkedinCall = "failed"
               \/ r.resp.error = "Indeed" /\ r.indeedCall = "failed"
               \/ r.resp.error = "Missing snapshot IDs" /\ bothOk

\* the LinkedIn call failed and the trigger has answered 500 while the Indeed
\* call is still in flight
C17_Witness ==
  /\ IsBoth(req[1]) /\ req[1].pc = "done"
  /\ req[1].resp.code = 500 /\ req[1].resp.error = "LinkedIn"
  /\ req[1].linkedinCall = "failed" /\ req[1].indeedCall = "flying"

\* C18 as claimed: a trigger sends one POST per platform, and a POST that
\* failed makes the trigger fail.
C18_NoRetryClaim ==
  \A s \in Handlers :
    IsTrigger(req[s]) =>
      /\ req[s].posts.linkedin <= 1 /\ req[s].posts.indeed <= 1
      /\ (/\ req[s].pc = "done"
          /\ \/ req[s].in.linkedin = ApiFailure
             \/ IsBoth(req[s]) /\ req[s].in.indeed = ApiFailure)
         => req[s].resp.code = 500

\* C19 as claimed: an accepted delivery adds its own raw-payload file, and its
\* own records file when it has records, and every file that was in the output
\* folder before is still there with the content it had.
C19_AppendOnlyClaim ==
  [][\A s \in Handlers :
       (Received(s) /\ IsDelivery(req'[s]) /\ req'[s].pc = "lookup")
       => /\ files \subseteq files'
          /\ Cardinality(req'[s].wrote) = IF Len(req'[s].det.data) > 0 THEN 2 ELSE 1
          /\ Cardinality(files') = Cardinality(files) + Cardinality(req'[s].wrote)]_vars

IsRead(r) == r.in.op = "read"

\* the files of one kind that were written for exactly this identifier
WrittenFor(kind, sid) ==
  {f \in files : \E t \in 0..MaxClock : f.name = FileName(kind, sid, t)}

\* the one written last
Newest(list) ==
  CHOOSE f \in list :
    \A g \in list : Stamp(g.name[Len(g.name)]) <= Stamp(f.name[Len(f.name)])

\* what readLatest is to return for an identifier: the latest records file
\* written for it, else the records of the latest raw payload written for it,
\* else nothing
LatestBackup(sid) ==
  IF WrittenFor("data", sid) # {}
  THEN Newest(WrittenFor("data", sid)).content
  ELSE IF WrittenFor("webhook", sid) # {}
  THEN Arr(extractJobDataFromPayload(Newest(WrittenFor("webhook", sid)).content, 0).data)
  ELSE Arr(<<>>)

\* C20 as claimed: reading the backup of a batch identifier returns the
\* records of the most recently written file among those written for exactly
\* that identifier, the latest records file when there is one and else the
\* latest raw payload, and never content written for another identifier.
C20_ReadLatestClaim ==
  [][\A s \in Handlers :
       (Received(s) /\ IsRead(req'[s]))
       => LET expected == LatestBackup(req'[s].in.snapshotId)
          IN  /\ req'[s].resp.dataCount = Len(expected.v)
              /\ req'[s].resp.found = (Len(expected.v) > 0)
              /\ req'[s].resp.found => req'[s].resp.data = expected]_vars

\* the repair returns in this step, without an error
RepairReturns(s) == req[s].pc = "fix" /\ req'[s].pc = "done" /\ ~req'[s].threw

\* C21 as claimed: when the repair returns without error every record's
\* dataCount is the length of its results list (0 when that is not a list),
\* the value returned is the number of records that were mismatched when it
\* started, and a run made right after another one returns 0.
C21_RepairClaim ==
  [][\A s \in Handlers :
       RepairReturns(s)
       => /\ \A d \in store'[Jobs] : d.dataCount = ActualCount(d)
          /\ req'[s].result = req[s].before
          /\ req[s].after => req'[s].result = 0]_vars

\* C21, amended: the same, for a repair during which no other write reached
\* the collection, and with a missing dataCount counted as 0.
C21_RepairAlone ==
  [][\A s \in Handlers :
       (RepairReturns(s) /\ started = req[s].startedAt)
       => /\ \A d \in store'[Jobs] : RecordedCount(d) = ActualCount(d)
          /\ req'[s].result = req[s].before
          /\ req[s].after => req'[s].result = 0]_vars

\* a run that found a record of two results counted as one and fixed it,
\* followed at once by a run that returned 0
C21_Witness ==
  \E s \in Handlers :
    /\ req[s].pc = "done" /\ ~req[s].threw
    /\ req[s].after /\ req[s].result = 0 /\ req[s].startedAt = started
    /\ \E d \in store[Jobs] : d.fixedAt /\ d.data = TwoRecords /\ d.dataCount = 2

IsSave(r) == r.in.op = "save"
IsUpdate(r) == r.in.op = "update"

\* the document a direct call of the gateway has just written
WrittenDoc(s) == CHOOSE d \in AllDocs : d.docId = req[s].docId

\* C22 as claimed: after an insert, and after an update that supplies a
\* results list, the stored dataCount is the length of the stored results
\* list, whatever dataCount the caller passed.
C22_CountDerivedClaim ==
  \A s \in Handlers :
    (/\ req[s].pc = "done" /\ ~req[s].writeFailed
     /\ \/ IsSave(req[s])
        \/ IsUpdate(req[s]) /\ req[s].in.updateData.hasData)
    => WrittenDoc(s).dataCount = Len(WrittenDoc(s).data)

\* a null, or an object without any key
IsEmptyValue(x) ==
  \/ x.t = "null"
  \/ x.t = "object" /\ \A k \in DOMAIN x \ {"t", "v"} : x[k].t = "undefined"

\* a stored record that holds an empty value, as a field, inside a nested
\* object, or by being an object without keys itself
HoldsEmptyValue(item) ==
  \/ \A k \in DOMAIN item : item[k].t = "undefined"
  \/ \E k \in DOMAIN item :
       \/ IsEmptyValue(item[k])
       \/ item[k].t = "object" /\ \E j \in DOMAIN item[k] \ {"t", "v"} : item[k][j].t = "null"

\* C23 as claimed: no document written by saveJobData or updateJobData holds
\* a null or an empty object anywhere in its results.
C23_WritesCleanedClaim ==
  \A d \in AllDocs : \A i \in 1..Len(d.data) : ~HoldsEmptyValue(d.data[i])

\* the record that was there for sid before the two deliveries
Preexisting(sid) == {d \in DocsWith(sid) : d.docId = 1}

\* delivery s, which carries records, makes its write to the store in this step
Writes(s) ==
  /\ req[s].pc \in {"add", "updWrite"}
  /\ req'[s].pc = "done"
  /\ store' # store

\* C24 as claimed: with a record existing for the identifier, each of the two
\* concurrent deliveries leaves that record, the only one for the identifier,
\* with exactly its own records and their number as dataCount, so the final
\* record is the one of the delivery that wrote last.
C24_LastWriteWinsClaim ==
  [][\A s \in Racers :
       (Writes(s) /\ Preexisting(req[s].det.snapshotId) # {})
       => \A d \in DocsWith(req[s].det.snapshotId)' :
            /\ d.docId = 1
            /\ d.hasData /\ d.data = req[s].det.data
            /\ d.dataCount = Len(req[s].det.data)]_vars

\* the placeholders stored for sid: one per triggered job that was given sid
PlaceholdersFor(sid) == {d \in DocsWith(sid) : d.status = Triggered}

\* C25 as claimed: as long as no identifier was given to two triggered jobs,
\* the store holds at most one record per identifier, all partitions taken
\* together.
C25_OneRecordPerIdClaim ==
  \A sid \in {X, Y} :
    Cardinality(PlaceholdersFor(sid)) <= 1 => Cardinality(DocsWith(sid)) <= 1

\* the signs of each category on one record
IndeedSign(r) ==
  \/ Includes(r.domain, "indeed.com") \/ Includes(r.url, "indeed.com")
  \/ Includes(r.job_url, "indeed.com") \/ Includes(r.company_link, "indeed.com")
LinkedinJobSign(r) ==
  \/ Includes(r.url, "linkedin.com/jobs") \/ Includes(r.job_url, "linkedin.com")
  \/ Includes(r.company_url, "linkedin.com") \/ Truthy(r.job_posting_id)
  \/ (Includes(r.url, "linkedin.com") /\ ~Includes(r.url, "company"))
LinkedinCompanySign(r) ==
  \/ Truthy(r.linkedin_url) \/ Includes(r.company_url, "linkedin.com/company")
  \/ Includes(r.url, "linkedin.com/company")
JobSearchSign(r) == Truthy(r.job_title) \/ Truthy(r.company_name) \/ Truthy(r.company)

\* the first category, in the fixed order, of which the record shows a sign
FirstSign(r) ==
  IF IndeedSign(r) THEN "indeed_jobs"
  ELSE IF LinkedinJobSign(r) THEN "linkedin_jobs"
  ELSE IF LinkedinCompanySign(r) THEN "linkedin_company"
  ELSE IF JobSearchSign(r) THEN "job_search"
  ELSE "unknown"

Classified == dOut # Pending /\ "jobType" \in DOMAIN dOut

\* C26: the category of a non-empty batch is a function of its first record
\* alone: it is the category the batch made of that record only receives,
\* and it is the first of Indeed, LinkedIn jobs, LinkedIn company, generic job
\* search of which the first record shows a sign, 'unknown' when it shows none.
C26_FirstRecordDecides ==
  (Classified /\ Len(dPayload.v) > 0) =>
    /\ dOut.jobType = determineJobType(<<dPayload.v[1]>>)
    /\ dOut.jobType = FirstSign(dPayload.v[1])

\* a batch whose first record shows signs of LinkedIn jobs, LinkedIn company
\* and generic job search, followed by an Indeed record
C26_Witness ==
  /\ Classified
  /\ Len(dPayload.v) = 2
  /\ ~IndeedSign(dPayload.v[1]) /\ LinkedinJobSign(dPayload.v[1])
  /\ LinkedinCompanySign(dPayload.v[1]) /\ JobSearchSign(dPayload.v[1])
  /\ IndeedSign(dPayload.v[2])
  /\ dOut.jobType = "linkedin_jobs"

\* the platform a delivery's job was triggered on, by the placeholder's category
EchoedFor(in) ==
  IF in.payload.snapshot_id = X THEN triggerCollectionWithWebhook_auth_header(env)
  ELSE triggerIndeedCollectionWithWebhook_auth_header(env)

\* C27: a delivery presenting in the auth_header query parameter exactly the
\* value the Trigger Client put into the trigger URL of that job is never
\* answered 401, whatever WEBHOOK_SECRET, BRIGHTDATA_API_KEY and
\* INDEED_API_KEY are.
C27_EchoAuthorizedClaim ==
  \A s \in Handlers :
    (req[s].in.op = "webhook" /\ req[s].in.method = "POST"
       /\ req[s].in.auth_header = EchoedFor(req[s].in))
    => req[s].resp.code # 401

IsList(r) == r.in.op = "list"

\* the identifiers the files of the output folder were written under
StoredUnder ==
  {sid \in {Str(SubSeq(f.name, 2, Len(f.name) - 1)) : f \in files} :
     WrittenFor("webhook", sid) \cup WrittenFor("data", sid) # {}}

\* C28: the snapshot listing is exactly the set of batch identifiers for which
\* a backup file (raw or extracted) exists at that moment, identifiers with
\* underscores included and unchanged, and nothing else.
C28_ListingExactClaim ==
  [][\A s \in Handlers :
       (Received(s) /\ IsList(req'[s])) => req'[s].resp.local = StoredUnder]_vars

HoldsResults(d) == d.hasData /\ Len(d.data) > 0

\* C29: a Job Record that holds a non-empty results list keeps one through
\* every step of every later delivery, whatever its payload: the step leaves
\* the list as it was or replaces it with the non-empty records of a delivery
\* being handled.
C29_ResultsKept ==
  [][\A p \in Partitions : \A d \in store[p] :
       HoldsResults(d) =>
         \E e \in store'[p] :
           /\ e.docId = d.docId
           /\ HoldsResults(e)
           /\ \/ e.data = d.data
              \/ \E s \in DOMAIN req :
                   IsDelivery(req[s]) /\ e.data = req[s].det.data]_vars

\* a record with results has been found by a status-only delivery, which
\* changed its status and left the results
C29_Witness ==
  /\ req[1].pc = "done" /\ req[1].in.op = "webhook"
  /\ Len(req[1].det.data) = 0
  /\ HoldsResults(req[1].existing)
  /\ \E p \in Partitions : \E d \in store[p] :
       /\ d.docId = req[1].existing.docId
       /\ d.status = Failed /\ d.status # req[1].existing.status
       /\ d.data = req[1].existing.data

\* handler s is at docRef.update() and the step writes the found record
MergeUpdates(s) ==
  /\ IsDelivery(req[s]) /\ req[s].pc = "updWrite" /\ req'[s].pc = "done"
  /\ store' # store

\* C30: a merge-update made by the Webhook Receiver on an existing Job Record
\* leaves its snapshot identifier, jobType, searchParams, createdAt and
\* metadata.triggeredAt as they were; it is the found record that is written,
\* and no other record changes.
C30_MergeFrame ==
  [][\A s \in DOMAIN req :
       MergeUpdates(s) =>
         \A p \in Partitions : \A d \in store[p] :
           \E e \in store'[p] :
             /\ e.docId = d.docId
             /\ e.snapshotId = d.snapshotId
             /\ e.jobType = d.jobType
             /\ e.searchParams = d.searchParams
             /\ e.createdAt = d.createdAt
             /\ e.triggeredAt = d.triggeredAt
             /\ e # d => d.docId = req[s].existing.docId]_vars

\* a record created at time 0 from LinkedIn records has been merge-updated by
\* a delivery received at time 1 that carried Indeed records
C30_Witness ==
  /\ req[1].pc = "done" /\ req[1].in.op = "webhook"
  /\ req[1].existing # NoDoc /\ req[1].at = 1
  /\ req[1].jobType = "indeed_jobs"
  /\ \E d \in store["linkedin_jobs"] :
       /\ d.docId = req[1].existing.docId
       /\ d.data = req[1].det.data /\ d.data # req[1].existing.data
       /\ d.jobType = "linkedin_jobs"
       /\ d.createdAt = formatTimestamp(0) /\ d.triggeredAt = formatTimestamp(0)

====
